---------------------------- MODULE Spec2Model ----------------------------
(***************************************************************************)
(* Sales transaction and stock-consistency core of the Koeka Shop POS.     *)
(*                                                                         *)
(* State: the products, stock_movements, sales/sale_items and daily_cash   *)
(* tables, the TransactionManager's in-memory current_sale and the         *)
(* calendar date.  Every action is one public call of ProductManager       *)
(* (core/products/management.py), TransactionManager                       *)
(* (core/sales/transaction.py) or CashManager                              *)
(* (core/sales/cash_management.py), run to completion (the application is  *)
(* single-threaded, one till).                                             *)
(*                                                                         *)
(* Money is counted in whole currency units; the VAT split of a sale, the   *)
(* one place where the code's float arithmetic leaves the whole units, is  *)
(* computed in IEEE-754 doubles.  The user_id and reason                   *)
(* columns of stock_movements are write-only audit text and are left out   *)
(* of the movement records; every other column the code reads or the       *)
(* properties mention is kept.  Row ids are assigned in increasing order   *)
(* and are not reused.                                                     *)
(***************************************************************************)
EXTENDS Integers, Sequences, FiniteSets, TLC

(* ---------------------------- bounds ----------------------------------- *)
MaxProducts == 2
MaxStock == 1
NegQty == 1
MaxSales == 1
MaxMovements == 3

(* an id is unknown before its product is created and after it is deleted *)
ProductIds == 1..MaxProducts
Stocks == 0..MaxStock
(* quantities keyed in at the till: negative, zero, up to one past the stock *)
Quantities == (0 - NegQty)..(MaxStock + 1)
(* stock corrections as the product screens make them: stock received is an
   "addition", stock written off an "adjustment" *)
StockCorrections == {<<1, "addition">>, <<0 - 1, "adjustment">>}
(* quantities of a direct ledger sale, up to one past the stock *)
ReduceQuantities == 1..(MaxStock + 1)
SaleIds == 1..(MaxSales + 1)
Users == {1, 2}
(* void_sale is called by a user with a reason *)
Voiders == {<<1, "mistake">>, <<2, "damaged">>}
MaxPrice == 2
MaxDays == 2
MaxOpening == 2
MaxWithdrawn == 2
MaxBooked == 2
Prices == {MaxPrice}
(* tendered: nothing, or what covers the largest total that can be staged *)
PayAmounts == {0, MaxPrice * MaxStock * MaxProducts}
PaymentMethods == {"card"}
(* at the builder's own checks: shelves of up to one more than MaxStock and
   quantities up to one past that *)
ShelfStocks == 0..(MaxStock + 1)
StagedQuantities == (0 - NegQty)..(MaxStock + 2)
(* the barcode a product is entered with, and the codes scanned at the
   till: those, and one that no product carries *)
BarcodeOf(p) == 600 + p
Barcodes == {600} \cup {BarcodeOf(p) : p \in ProductIds}
(* what set_payment_method is called with: the three methods and one that
   is not a method, amounts from nothing to one more than a unit price *)
TenderMethods == {"cash", "card", "mixed", "voucher"}
TenderAmounts == 0..(MaxPrice + 1)
(* the calendar, the float the day is opened with, the cash taken out of
   the till at a time and the cash counted at closing *)
Days == 1..MaxDays
OpeningAmounts == {0, MaxOpening}
WithdrawalAmounts == {1}
CountedAmounts == {0, MaxOpening}

VARIABLES products, nextProductId, movements, sales, current_sale, last, watch,
          daily_cash, today, schema

(* schema: the columns the products table has gained since base_schema.sql
   created it *)
(* the till's day book and the calendar date, date.today() *)
till == <<daily_cash, today>>

vars == <<products, nextProductId, movements, sales, current_sale, last, watch,
          daily_cash, today, schema>>

(* ---------------------------- helpers ---------------------------------- *)
Max(a, b) == IF a >= b THEN a ELSE b

RECURSIVE SumTotals(_)
SumTotals(items) ==
    IF items = <<>> THEN 0 ELSE Head(items).total_price + SumTotals(Tail(items))

RECURSIVE SumQuantities(_)
SumQuantities(items) ==
    IF items = <<>> THEN 0 ELSE Head(items).quantity + SumQuantities(Tail(items))

(* ------------------- floating-point arithmetic ------------------------- *)
(* Natural numbers wider than the checker's integers: sequences of digits
   in base 2^15, least significant first, without leading zero; 0 is <<>>. *)
Trim(a) ==
    LET n == CHOOSE i \in 0..Len(a) :
                 /\ i = 0 \/ a[i] # 0
                 /\ \A j \in (i + 1)..Len(a) : a[j] = 0
    IN SubSeq(a, 1, n)

RECURSIVE BAdd(_, _, _)
BAdd(a, b, carry) ==
    IF a = <<>> /\ b = <<>> THEN (IF carry = 0 THEN <<>> ELSE <<carry>>)
    ELSE LET sum == (IF a = <<>> THEN 0 ELSE Head(a))
                    + (IF b = <<>> THEN 0 ELSE Head(b)) + carry
         IN <<sum % 32768>> \o BAdd(IF a = <<>> THEN a ELSE Tail(a),
                                    IF b = <<>> THEN b ELSE Tail(b),
                                    sum \div 32768)

(* a - b - borrow for a >= b + borrow; leading zeros are left in *)
RECURSIVE BSub(_, _, _)
BSub(a, b, borrow) ==
    IF a = <<>> THEN <<>>
    ELSE LET diff == Head(a) - (IF b = <<>> THEN 0 ELSE Head(b)) - borrow
         IN <<diff % 32768>> \o BSub(Tail(a), IF b = <<>> THEN b ELSE Tail(b),
                                     IF diff < 0 THEN 1 ELSE 0)

BLess(a, b) ==
    \/ Len(a) < Len(b)
    \/ /\ Len(a) = Len(b)
       /\ \E i \in 1..Len(a) :
              /\ a[i] < b[i]
              /\ \A j \in (i + 1)..Len(a) : a[j] = b[j]

(* a * c + carry for a digit c *)
RECURSIVE BMulSmall(_, _, _)
BMulSmall(a, c, carry) ==
    IF a = <<>> THEN (IF carry = 0 THEN <<>> ELSE <<carry>>)
    ELSE LET prod == Head(a) * c + carry
         IN <<prod % 32768>> \o BMulSmall(Tail(a), c, prod \div 32768)

RECURSIVE BMul(_, _)
BMul(a, b) ==
    IF b = <<>> THEN <<>>
    ELSE Trim(BAdd(BMulSmall(a, Head(b), 0), <<0>> \o BMul(a, Tail(b)), 0))

(* quotient (leading zeros left in) and remainder of a by a digit c *)
RECURSIVE BDivMod(_, _)
BDivMod(a, c) ==
    IF a = <<>> THEN [q |-> <<>>, r |-> 0]
    ELSE LET high == BDivMod(Tail(a), c)
             part == high.r * 32768 + Head(a)
         IN [q |-> <<part \div c>> \o high.q, r |-> part % c]

(* the number of binary digits of a *)
BitLen(a) ==
    IF a = <<>> THEN 0
    ELSE 15 * (Len(a) - 1)
             + (CHOOSE k \in 1..15 : 2^(k - 1) <= a[Len(a)] /\ a[Len(a)] < 2^k)

(* a * 2^k and a \div 2^k *)
Shl(a, k) ==
    IF a = <<>> THEN <<>>
    ELSE [i \in 1..(k \div 15) |-> 0] \o BMulSmall(a, 2^(k % 15), 0)

Shr(a, k) ==
    Trim(BDivMod(SubSeq(a, (k \div 15) + 1, Len(a)), 2^(k % 15)).q)

(* A Python float (an IEEE-754 double) that is not negative: [m, e] stands
   for m * 2^e with m odd and below 2^53, 0.0 is [<<>>, 0].  Round is the
   double nearest to m * 2^e, ties to even; sticky says that m was cut off
   from a longer expansion with non-zero digits below it. *)
Round(m, e, sticky) ==
    LET s == BitLen(m) - 53
        q == Shr(m, s)
        rem == Trim(BSub(m, Shl(q, s), 0))
        half == Shl(<<1>>, s - 1)
        up == BLess(half, rem) \/ (rem = half /\ (sticky \/ q[1] % 2 = 1))
        kept == IF s <= 0 THEN m ELSE IF up THEN BAdd(q, <<1>>, 0) ELSE q
        z == CHOOSE t \in 0..53 : /\ Shr(kept, t)[1] % 2 = 1
                                  /\ Shl(Shr(kept, t), t) = kept
    IN IF m = <<>> THEN [m |-> <<>>, e |-> 0]
       ELSE [m |-> Shr(kept, z), e |-> e + (IF s <= 0 THEN 0 ELSE s) + z]

(* x + y *)
FAdd(x, y) ==
    LET e == IF x.e < y.e THEN x.e ELSE y.e
    IN Round(BAdd(Shl(x.m, x.e - e), Shl(y.m, y.e - e), 0), e, FALSE)

(* x - y for x >= y *)
FSub(x, y) ==
    LET e == IF x.e < y.e THEN x.e ELSE y.e
    IN Round(Trim(BSub(Shl(x.m, x.e - e), Shl(y.m, y.e - e), 0)), e, FALSE)

(* x * y *)
FMul(x, y) == Round(BMul(x.m, y.m), x.e + y.e, FALSE)

(* x / y for x > 0 and y a whole number below 2^15 *)
FDiv(x, y) ==
    LET dm == BDivMod(Shl(x.m, 70), y.m[1])
    IN Round(Trim(dm.q), x.e - y.e - 70, dm.r # 0)

(* float(n) for a whole number 0 <= n < 2^15 *)
Float(n) == Round(Trim(<<n>>), 0, FALSE)

(* Product row: the columns of the products table the core reads *)
Product(price, stock) ==
    [name |-> "bread", sell_price |-> price, current_stock |-> stock,
     archived |-> FALSE, vat_rate |-> 15, vat_inclusive |-> TRUE]

(* a line whose total is the unit price whatever the quantity *)
SaleItem_UnitTotal(pid, qty, price, rate) ==
    [product_id |-> pid, quantity |-> qty, unit_price |-> price,
     total_price |-> price, vat_rate |-> rate]

(* SaleItem dataclass *)
SaleItem(pid, qty, price, rate) ==
    [product_id |-> pid, quantity |-> qty, unit_price |-> price,
     total_price |-> price * qty, vat_rate |-> rate]

(* Sale dataclass defaults; active = FALSE stands for current_sale is None *)
NoSale ==
    [active |-> FALSE, user_id |-> 0, date |-> 0, items |-> <<>>,
     payment_method |-> "cash", cash_amount |-> 0, card_amount |-> 0,
     change_given |-> 0]

(* Sale(user_id = user): date_time defaults to the moment of construction *)
NewSale(user) == [NoSale EXCEPT !.active = TRUE, !.user_id = user, !.date = today]

(* Sale.total_amount property *)
total_amount(sale) == SumTotals(sale.items)

(* SaleItem.calculate_vat_amount, "VAT amount for this item (if VAT
   inclusive)": total_price and vat_rate are whole numbers held as floats *)
calculate_vat_amount(item) ==
    IF item.vat_rate > 0
    THEN FMul(Float(item.total_price),
              FDiv(Float(item.vat_rate),
                   FAdd(Float(100), Float(item.vat_rate))))
    ELSE Float(0)

(* sum() over floats: the terms are added one by one from the left *)
RECURSIVE SumFloats(_)
SumFloats(xs) ==
    IF xs = <<>> THEN Float(0)
    ELSE FAdd(SumFloats(SubSeq(xs, 1, Len(xs) - 1)), xs[Len(xs)])

(* Sale.subtotal property, "Subtotal before VAT" *)
subtotal(sale) ==
    SumFloats([i \in 1..Len(sale.items) |->
                  FSub(Float(sale.items[i].total_price),
                       calculate_vat_amount(sale.items[i]))])

(* Sale.vat_amount property, "Total VAT amount" *)
vat_amount(sale) ==
    SumFloats([i \in 1..Len(sale.items) |-> calculate_vat_amount(sale.items[i])])

(* Sale.item_count property *)
item_count(sale) == SumQuantities(sale.items)

(* ProductManager.get_product_by_id: is there a row *)
Exists(p) == p \in DOMAIN products

(* History of the last call.  watch is the set of operations a
   specification observes and never changes; last holds, for the last call
   of a watched operation, its name and how it ended (the value returned or
   the error raised) and, after a complete_sale that returned, the id it
   returned and the products table as it was when it was called.  A call of
   an operation that is not watched leaves Unwatched. *)
Result(op, res) ==
    [op |-> op, result |-> res, sid |-> 0, before |-> <<>>, args |-> <<>>]

Unwatched == Result("other", "none")

Record(op, res) ==
    /\ watch' = watch
    /\ last' = IF op \in watch THEN Result(op, res) ELSE Unwatched

(* a watched builder call also keeps the line items it was called on *)
RecordStaged(op, res, items) ==
    /\ watch' = watch
    /\ last' = IF op \in watch
               THEN [Result(op, res) EXCEPT !.before = items]
               ELSE Unwatched

(* a watched set_payment_method also keeps what it was called with *)
RecordTender(res, items, method, cash, card) ==
    /\ watch' = watch
    /\ last' = IF "set_payment_method" \in watch
               THEN [Result("set_payment_method", res) EXCEPT
                         !.before = items, !.args = <<method, cash, card>>]
               ELSE Unwatched

(* a watched call that returns a report, or is called on a date or a
   product of the caller's choice, keeps that in args *)
RecordArgs(op, res, args) ==
    /\ watch' = watch
    /\ last' = IF op \in watch
               THEN [Result(op, res) EXCEPT !.args = args]
               ELSE Unwatched

RecordCompleted(sale_id, prods) ==
    /\ watch' = watch
    /\ last' = IF "complete_sale" \in watch
               THEN [Result("complete_sale", "id") EXCEPT
                         !.sid = sale_id, !.before = prods]
               ELSE Unwatched

(* ProductManager._log_stock_movement: the row it inserts *)
Movement(pid, type, change, prev, new, ref) ==
    [product_id |-> pid, movement_type |-> type, quantity_change |-> change,
     previous_stock |-> prev, new_stock |-> new, reference_id |-> ref]

(* base_schema.sql: of the columns the code adds at run time, those the
   products table is created with.  The archived flag is bolted onto the
   table by the first archive_product. *)
base_schema == {}

(* a new database and a TransactionManager with no sale started *)
Stores ==
    /\ products = <<>>
    /\ nextProductId = 1
    /\ movements = <<>>
    /\ sales = <<>>
    /\ current_sale = NoSale
    /\ last = Unwatched
    /\ daily_cash = <<>>
    /\ today = 1
    /\ schema = base_schema

Init ==
    /\ Stores
    /\ watch = {}


(* --------------------- ProductManager: stock ledger -------------------- *)
(* state reached by a ledger call, with the way the call ended *)
Outcome(prods, movs, res) == [products |-> prods, movements |-> movs, result |-> res]

SetStock(prods, p, n) == [prods EXCEPT ![p].current_stock = n]

(* a create_product that never logs the initial stock *)
LogsInitialStock_Never(stock) == FALSE

(* create_product logs the initial stock only when it is positive *)
LogsInitialStock(stock) == stock > 0

(* an adjust_stock without the check *)
BelowZero_Unchecked(new_stock) == FALSE

(* adjust_stock: "Prevent negative stock" *)
BelowZero(new_stock) == new_stock < 0

(* a reduce_stock_for_sale that only refuses an empty shelf *)
Insufficient_EmptyOnly(current_stock, quantity) == current_stock <= 0

(* reduce_stock_for_sale: product.current_stock < quantity *)
Insufficient(current_stock, quantity) == current_stock < quantity

(* adjust_stock on the tables (prods, movs).  dbok = FALSE is the run in
   which the INSERT of the movement raises a database error after the
   UPDATE of the stock has been committed by its own connection. *)
adjust_stock(prods, movs, p, quantity_change, movement_type, dbok) ==
    IF p \notin DOMAIN prods THEN Outcome(prods, movs, "false")
    ELSE LET previous_stock == prods[p].current_stock
             new_stock == previous_stock + quantity_change
         IN IF BelowZero(new_stock) THEN Outcome(prods, movs, "raise_negative")
            ELSE IF ~dbok THEN Outcome(SetStock(prods, p, new_stock), movs, "raise_db")
            ELSE Outcome(SetStock(prods, p, new_stock),
                         Append(movs, Movement(p, movement_type, quantity_change,
                                               previous_stock, new_stock, 0)),
                         "true")

(* reduce_stock_for_sale on the tables (prods, movs) *)
reduce_stock_for_sale(prods, movs, p, quantity, sale_id, dbok) ==
    IF p \notin DOMAIN prods THEN Outcome(prods, movs, "false")
    ELSE LET previous_stock == prods[p].current_stock
             new_stock == previous_stock - quantity
         IN IF Insufficient(prods[p].current_stock, quantity)
            THEN Outcome(prods, movs, "raise_insufficient")
            ELSE IF ~dbok THEN Outcome(SetStock(prods, p, new_stock), movs, "raise_db")
            ELSE Outcome(SetStock(prods, p, new_stock),
                         Append(movs, Movement(p, "sale", 0 - quantity,
                                               previous_stock, new_stock, sale_id)),
                         "true")

(* the model's bounds on a reached state *)
WithinBounds(prods, movs) ==
    /\ Len(movs) <= MaxMovements
    /\ \A q \in DOMAIN prods : prods[q].current_stock <= MaxStock

(* the ledger call ends in the state r *)
LedgerStep(r) ==
    /\ WithinBounds(r.products, r.movements)
    /\ products' = r.products
    /\ movements' = r.movements
    /\ UNCHANGED <<nextProductId, sales, current_sale, till, schema>>

CreateProduct(price, stock) ==
    /\ nextProductId <= MaxProducts
    /\ LET id == nextProductId
           row == Product(price, stock)
       IN /\ products' = [q \in DOMAIN products \cup {id} |->
                              IF q = id THEN row ELSE products[q]]
          /\ movements' = IF LogsInitialStock(stock)
                          THEN Append(movements,
                                      Movement(id, "addition", stock, 0, stock, 0))
                          ELSE movements
          /\ Record("create_product", "id")
    /\ Len(movements') <= MaxMovements
    /\ nextProductId' = nextProductId + 1
    /\ UNCHANGED <<sales, current_sale, till, schema>>

AdjustStock(p, quantity_change, movement_type) ==
    LET r == adjust_stock(products, movements, p, quantity_change, movement_type, TRUE)
    IN /\ LedgerStep(r)
       /\ Record("adjust_stock", r.result)

ReduceStockForSale(p, quantity, sale_id) ==
    LET r == reduce_stock_for_sale(products, movements, p, quantity, sale_id, TRUE)
    IN /\ LedgerStep(r)
       /\ Record("reduce_stock_for_sale", r.result)

(* rows of sale_items that reference product p *)
RECURSIVE CountItems(_, _)
CountItems(items, p) ==
    IF items = <<>> THEN 0
    ELSE (IF Head(items).product_id = p THEN 1 ELSE 0) + CountItems(Tail(items), p)

RECURSIVE sales_count(_, _)
sales_count(ss, p) ==
    IF ss = <<>> THEN 0 ELSE CountItems(Head(ss).items, p) + sales_count(Tail(ss), p)

movements_count(movs, p) ==
    Cardinality({i \in 1..Len(movs) : movs[i].product_id = p})

(* a check that looks at the sale items only *)
can_delete_SalesOnly(p) == sales_count(sales, p) = 0

(* can_delete_product: can_delete *)
can_delete(p) == sales_count(sales, p) = 0 /\ movements_count(movements, p) = 0

(* can_delete_product: the dictionary it returns *)
can_delete_product(p) ==
    IF ~Exists(p) THEN [can_delete |-> FALSE, reason |-> "Product not found"]
    ELSE [can_delete |-> can_delete(p),
          sales_count |-> sales_count(sales, p),
          movements_count |-> movements_count(movements, p),
          current_stock |-> products[p].current_stock,
          recommendation |-> IF ~can_delete(p) THEN "archive" ELSE "delete"]

(* the movement a forced delete_product logs *)
DeletionMovement(p, stock) == Movement(p, "deletion", 0 - stock, stock, 0, 0)

DeleteProduct(p, force) ==
    /\ IF ~Exists(p)
       THEN /\ RecordArgs("delete_product", "raise_notfound", <<p, force>>)
            /\ UNCHANGED <<products, movements>>
       ELSE IF ~can_delete(p) /\ ~force
       THEN /\ RecordArgs("delete_product", "raise_has_history", <<p, force>>)
            /\ UNCHANGED <<products, movements>>
       ELSE /\ movements' = IF force /\ ~can_delete(p)
                            THEN Append(movements,
                                        DeletionMovement(p, products[p].current_stock))
                            ELSE movements
            /\ Len(movements') <= MaxMovements
            /\ products' = [q \in DOMAIN products \ {p} |-> products[q]]
            /\ RecordArgs("delete_product", "true", <<p, force>>)
    /\ UNCHANGED <<nextProductId, sales, current_sale, till, schema>>

(* an archive_product that logs the stock it found as the resulting stock *)
ArchiveMovement_Stale(p, stock) ==
    Movement(p, "adjustment", 0 - stock, stock, stock, 0)

(* the movement archive_product logs before it clears the stock *)
ArchiveMovement(p, stock) == Movement(p, "adjustment", 0 - stock, stock, 0, 0)

(* archive_product; it starts with ALTER TABLE products ADD COLUMN archived
   BOOLEAN DEFAULT 0, and goes on when the column is already there *)
ArchiveProduct(p) ==
    /\ schema' = schema \cup {"archived"}
    /\ IF Exists(p)
       THEN /\ movements' = Append(movements,
                                   ArchiveMovement(p, products[p].current_stock))
            /\ Len(movements') <= MaxMovements
            /\ products' = [products EXCEPT ![p].archived = TRUE,
                                            ![p].current_stock = 0]
            /\ RecordArgs("archive_product", "true", <<p>>)
       ELSE /\ RecordArgs("archive_product", "false", <<p>>)
            /\ UNCHANGED <<products, movements>>
    /\ UNCHANGED <<nextProductId, sales, current_sale, till>>

(* the movement restore_product logs *)
RestoreMovement(p) == Movement(p, "adjustment", 0, 0, 0, 0)

(* restore_product: UPDATE products SET archived = 0 WHERE id = ? AND
   archived = 1, which SQLite refuses while the table has no such column *)
RestoreProduct(p) ==
    /\ IF "archived" \notin schema
       THEN /\ RecordArgs("restore_product", "raise_db", <<p>>)
            /\ UNCHANGED <<products, movements>>
       ELSE IF Exists(p) /\ products[p].archived
       THEN /\ movements' = Append(movements, RestoreMovement(p))
            /\ Len(movements') <= MaxMovements
            /\ products' = [products EXCEPT ![p].archived = FALSE]
            /\ RecordArgs("restore_product", "true", <<p>>)
       ELSE /\ RecordArgs("restore_product", "false", <<p>>)
            /\ UNCHANGED <<products, movements>>
    /\ UNCHANGED <<nextProductId, sales, current_sale, till, schema>>

(* update_product: the columns of the form are overwritten, current_stock
   and archived are not among them *)
UpdateProduct(p, name, price) ==
    /\ products' = IF Exists(p)
                   THEN [products EXCEPT ![p].name = name,
                                         ![p].sell_price = price]
                   ELSE products
    /\ Record("update_product", IF Exists(p) THEN "true" ELSE "false")
    /\ UNCHANGED <<nextProductId, movements, sales, current_sale, till, schema>>

(* get_all_products: the ids listed; without include_archived the SELECT
   names the archived column *)
get_all_products(prods, columns, include_archived) ==
    IF include_archived THEN [result |-> "list", ids |-> DOMAIN prods]
    ELSE IF "archived" \notin columns THEN [result |-> "raise_db", ids |-> {}]
    ELSE [result |-> "list",
          ids |-> {q \in DOMAIN prods : ~prods[q].archived}]

(* get_archived_products: "If archived column doesn't exist, return empty
   list" *)
get_archived_products(prods, columns) ==
    IF "archived" \notin columns THEN {}
    ELSE {q \in DOMAIN prods : prods[q].archived}

(* --------------------- TransactionManager: the builder ----------------- *)
StartNewSale(user) ==
    /\ current_sale' = NewSale(user)
    /\ Record("start_new_sale", "sale")
    /\ UNCHANGED <<products, nextProductId, movements, sales, till, schema>>

(* a stock check that refuses the last unit on the shelf *)
NotAvailable_Strict(current_stock, quantity) == current_stock <= quantity

(* add_item_to_sale / update_item_quantity: "Check stock availability" *)
NotAvailable(current_stock, quantity) == current_stock < quantity

(* a search that never finds the product among the lines *)
LineOf_None(items, p) == 0

(* index of the line of product p in items, 0 when there is none *)
LineOf(items, p) ==
    IF \E i \in 1..Len(items) : items[i].product_id = p
    THEN CHOOSE i \in 1..Len(items) :
             /\ items[i].product_id = p
             /\ \A j \in 1..(i - 1) : items[j].product_id # p
    ELSE 0

(* a line that carries the product's rate whatever its VAT-inclusive flag *)
LineVatRate_Nominal(product) == product.vat_rate

(* add_item_to_sale: vat_rate of a new line *)
LineVatRate(product) == IF product.vat_inclusive THEN product.vat_rate ELSE 0

(* a rewrite of the quantity that leaves the old line total in place *)
Requantified_StaleTotal(item, new_quantity) ==
    [item EXCEPT !.quantity = new_quantity]

(* the line rewritten with a new quantity, its unit price kept *)
Requantified(item, new_quantity) ==
    [item EXCEPT !.quantity = new_quantity,
                 !.total_price = item.unit_price * new_quantity]

(* what the builder call leaves behind: the staged sale and the result *)
Staged(sale, res) == [sale |-> sale, result |-> res]

add_item_to_sale(sale, p, quantity) ==
    IF ~sale.active THEN Staged(sale, "raise_no_sale")
    ELSE IF ~Exists(p) THEN Staged(sale, "raise_notfound")
    ELSE IF NotAvailable(products[p].current_stock, quantity)
    THEN Staged(sale, "raise_insufficient")
    ELSE LET i == LineOf(sale.items, p)
         IN IF i # 0
            THEN LET new_quantity == sale.items[i].quantity + quantity
                 IN IF NotAvailable(products[p].current_stock, new_quantity)
                    THEN Staged(sale, "raise_insufficient")
                    ELSE Staged([sale EXCEPT !.items[i] =
                                     Requantified(sale.items[i], new_quantity)],
                                "true")
            ELSE Staged([sale EXCEPT !.items =
                             Append(sale.items,
                                    SaleItem(p, quantity, products[p].sell_price,
                                             LineVatRate(products[p])))],
                        "true")

RECURSIVE WithoutProduct(_, _)
WithoutProduct(items, p) ==
    IF items = <<>> THEN <<>>
    ELSE IF Head(items).product_id # p
         THEN <<Head(items)>> \o WithoutProduct(Tail(items), p)
         ELSE WithoutProduct(Tail(items), p)

remove_item_from_sale(sale, p) ==
    IF ~sale.active THEN Staged(sale, "false")
    ELSE Staged([sale EXCEPT !.items = WithoutProduct(sale.items, p)], "true")

update_item_quantity(sale, p, new_quantity) ==
    IF ~sale.active THEN Staged(sale, "false")
    ELSE IF new_quantity <= 0 THEN remove_item_from_sale(sale, p)
    ELSE IF ~Exists(p) THEN Staged(sale, "false")
    ELSE IF NotAvailable(products[p].current_stock, new_quantity)
    THEN Staged(sale, "raise_insufficient")
    ELSE LET i == LineOf(sale.items, p)
         IN IF i # 0
            THEN Staged([sale EXCEPT !.items[i] =
                             Requantified(sale.items[i], new_quantity)], "true")
            ELSE Staged(sale, "false")

(* a lookup that falls back on the first product when no barcode matches *)
get_product_by_barcode_First(prods, barcode) ==
    IF DOMAIN prods = {} THEN 0 ELSE CHOOSE p \in DOMAIN prods :
                                         \A q \in DOMAIN prods : p <= q

(* ProductManager.get_product_by_barcode: the id of the first row with the
   barcode, 0 for None *)
get_product_by_barcode(prods, barcode) ==
    IF \E p \in DOMAIN prods : BarcodeOf(p) = barcode
    THEN CHOOSE p \in DOMAIN prods :
             /\ BarcodeOf(p) = barcode
             /\ \A q \in DOMAIN prods : BarcodeOf(q) = barcode => p <= q
    ELSE 0

add_item_by_barcode(sale, barcode, quantity) ==
    LET p == get_product_by_barcode(products, barcode)
    IN IF p = 0 THEN Staged(sale, "raise_notfound")
       ELSE add_item_to_sale(sale, p, quantity)

(* a set_payment_method that offsets the total by cash and card together *)
ChangeFor_Symmetric(method, cash, card, total) ==
    IF method = "card" THEN 0 ELSE Max(0, cash + card - total)

(* set_payment_method: the change for a method and the tendered amounts *)
ChangeFor(method, cash, card, total) ==
    IF method = "cash" THEN Max(0, cash - total)
    ELSE IF method = "mixed" THEN Max(0, cash - Max(0, total - card))
    ELSE 0

set_payment_method(sale, method, cash, card) ==
    IF ~sale.active THEN Staged(sale, "false")
    ELSE IF method \notin {"cash", "card", "mixed"}
    THEN Staged(sale, "raise_invalid_method")
    ELSE Staged([sale EXCEPT !.payment_method = method,
                             !.cash_amount = cash,
                             !.card_amount = card,
                             !.change_given =
                                 ChangeFor(method, cash, card, total_amount(sale))],
                "true")

(* a staging call that logs a reservation for the sale it has changed *)
StagingStep_Reserves(r) ==
    /\ \A i \in 1..Len(r.sale.items) : r.sale.items[i].quantity >= 0 - NegQty
    /\ current_sale' = r.sale
    /\ movements' = IF r.result = "true" /\ Len(movements) < MaxMovements
                    THEN Append(movements, Movement(0, "sale", 0, 0, 0, 0))
                    ELSE movements
    /\ UNCHANGED <<products, nextProductId, sales, till, schema>>

(* a staging call moves only the builder's working slot *)
StagingStep(r) ==
    /\ \A i \in 1..Len(r.sale.items) : r.sale.items[i].quantity >= 0 - NegQty
    /\ current_sale' = r.sale
    /\ UNCHANGED <<products, nextProductId, movements, sales, till, schema>>

AddItemToSale(p, quantity) ==
    LET r == add_item_to_sale(current_sale, p, quantity)
    IN /\ StagingStep(r)
       /\ RecordStaged("add_item_to_sale", r.result, current_sale.items)

AddItemByBarcode(barcode, quantity) ==
    LET r == add_item_by_barcode(current_sale, barcode, quantity)
    IN /\ StagingStep(r)
       /\ RecordStaged("add_item_by_barcode", r.result, current_sale.items)

RemoveItemFromSale(p) ==
    LET r == remove_item_from_sale(current_sale, p)
    IN /\ StagingStep(r)
       /\ RecordStaged("remove_item_from_sale", r.result, current_sale.items)

UpdateItemQuantity(p, new_quantity) ==
    LET r == update_item_quantity(current_sale, p, new_quantity)
    IN /\ StagingStep(r)
       /\ watch' = watch
       /\ last' = IF "update_item_quantity" \in watch
                  THEN [Result("update_item_quantity", r.result)
                            EXCEPT !.before = current_sale.items,
                                   !.args = <<p, new_quantity>>]
                  ELSE Unwatched

SetPaymentMethod(method, cash, card) ==
    LET r == set_payment_method(current_sale, method, cash, card)
    IN /\ StagingStep(r)
       /\ RecordTender(r.result, current_sale.items, method, cash, card)

(* the till's "0. Cancel Sale": the open sale is dropped from the slot *)
CancelSale ==
    /\ current_sale.active
    /\ current_sale' = NoSale
    /\ RecordStaged("cancel_sale", "none", current_sale.items)
    /\ UNCHANGED <<products, nextProductId, movements, sales, till, schema>>

(* a validate_payment that tolerates a tender that is one unit short *)
validate_payment_Lenient(sale) ==
    sale.active /\ sale.cash_amount + sale.card_amount + 1 >= total_amount(sale)

(* a validate_payment that accepts any tender *)
validate_payment_Always(sale) == sale.active

(* validate_payment *)
validate_payment(sale) ==
    sale.active /\ sale.cash_amount + sale.card_amount >= total_amount(sale)

(* --------------------- complete_sale and void_sale --------------------- *)
(* _save_sale_to_db: the sales row with its sale_items rows *)
SaleRow(sale) ==
    [user_id |-> sale.user_id, date |-> sale.date, items |-> sale.items,
     total_amount |-> total_amount(sale),
     payment_method |-> sale.payment_method, cash_amount |-> sale.cash_amount,
     card_amount |-> sale.card_amount, change_given |-> sale.change_given,
     voided |-> FALSE, voided_by |-> 0, void_reason |-> ""]

(* a complete_sale that leaves the completed sale in the working slot *)
Cleared_Kept(sale) == sale

(* complete_sale, "Clear current sale": self.current_sale = None *)
Cleared(sale) == NoSale

(* complete_sale: "Reduce stock for all items"; the value reduce_stock_for_sale
   returns is not looked at, an exception it raises ends the loop *)
RECURSIVE ReduceAll(_, _, _, _)
ReduceAll(prods, movs, items, sale_id) ==
    IF items = <<>> THEN Outcome(prods, movs, "true")
    ELSE LET r == reduce_stock_for_sale(prods, movs, Head(items).product_id,
                                        Head(items).quantity, sale_id, TRUE)
         IN IF r.result \in {"true", "false"}
            THEN ReduceAll(r.products, r.movements, Tail(items), sale_id)
            ELSE r

(* void_sale: "Restore stock for all items" *)
RECURSIVE RestoreAll(_, _, _)
RestoreAll(prods, movs, items) ==
    IF items = <<>> THEN Outcome(prods, movs, "true")
    ELSE LET r == adjust_stock(prods, movs, Head(items).product_id,
                               Head(items).quantity, "adjustment", TRUE)
         IN IF r.result \in {"true", "false"}
            THEN RestoreAll(r.products, r.movements, Tail(items))
            ELSE r

CompleteSale ==
    IF ~current_sale.active
    THEN /\ Record("complete_sale", "raise_no_sale")
         /\ UNCHANGED <<products, nextProductId, movements, sales, current_sale, till, schema>>
    ELSE IF current_sale.items = <<>>
    THEN /\ Record("complete_sale", "raise_empty")
         /\ UNCHANGED <<products, nextProductId, movements, sales, current_sale, till, schema>>
    ELSE IF ~validate_payment(current_sale)
    THEN /\ Record("complete_sale", "raise_payment")
         /\ UNCHANGED <<products, nextProductId, movements, sales, current_sale, till, schema>>
    ELSE LET sale_id == Len(sales) + 1
             r == ReduceAll(products, movements, current_sale.items, sale_id)
         IN /\ Len(sales) < MaxSales
            /\ WithinBounds(r.products, r.movements)
            /\ sales' = Append(sales, SaleRow(current_sale))
            /\ products' = r.products
            /\ movements' = r.movements
            /\ IF r.result = "true"
               THEN /\ current_sale' = Cleared(current_sale)
                    /\ RecordCompleted(sale_id, products)
               ELSE /\ current_sale' = current_sale
                    /\ Record("complete_sale", r.result)
            /\ UNCHANGED <<nextProductId, till, schema>>

(* a void_sale that does not look at the voided flag *)
AlreadyVoided_Ignored(row) == FALSE

(* void_sale: sale.voided read back by get_sale_by_id *)
AlreadyVoided(row) == row.voided

(* a void that also zeroes the tender recorded on the sale *)
MarkVoided_ClearsTender(row, user, reason) ==
    [row EXCEPT !.voided = TRUE, !.voided_by = user, !.void_reason = reason,
                !.cash_amount = 0, !.card_amount = 0]

(* void_sale: UPDATE sales SET voided = 1, voided_by, void_reason *)
MarkVoided(row, user, reason) ==
    [row EXCEPT !.voided = TRUE, !.voided_by = user, !.void_reason = reason]

VoidSale(sale_id, user, reason) ==
    /\ IF sale_id \notin 1..Len(sales)
       THEN /\ Record("void_sale", "false")
            /\ UNCHANGED <<products, movements, sales>>
       ELSE IF AlreadyVoided(sales[sale_id])
       THEN /\ Record("void_sale", "raise_voided")
            /\ UNCHANGED <<products, movements, sales>>
       ELSE LET r == RestoreAll(products, movements, sales[sale_id].items)
            IN /\ WithinBounds(r.products, r.movements)
               /\ sales' = [sales EXCEPT ![sale_id] = MarkVoided(@, user, reason)]
               /\ products' = r.products
               /\ movements' = r.movements
               /\ Record("void_sale", r.result)
    /\ UNCHANGED <<nextProductId, current_sale, till, schema>>

(* a JOIN that drops the items whose product row is gone *)
Joined_Inner(items, prods) ==
    LET kept == SelectSeq(items, LAMBDA item : item.product_id \in DOMAIN prods)
    IN [i \in 1..Len(kept) |->
           [product_id |-> kept[i].product_id,
            product_name |-> <<prods[kept[i].product_id].name>>,
            quantity |-> kept[i].quantity, unit_price |-> kept[i].unit_price,
            total_price |-> kept[i].total_price,
            vat_rate |-> kept[i].vat_rate]]

(* get_sale_by_id: the rows of sale_items as the SELECT returns them, LEFT
   JOIN products ... ORDER BY si.id.  The sale_items table has no name
   column; product_name is p.name of the joined products row, NULL (the
   empty tuple) when that row is gone. *)
Joined(items, prods) ==
    [i \in 1..Len(items) |->
        [product_id |-> items[i].product_id,
         product_name |-> IF items[i].product_id \in DOMAIN prods
                          THEN <<prods[items[i].product_id].name>> ELSE <<>>,
         quantity |-> items[i].quantity, unit_price |-> items[i].unit_price,
         total_price |-> items[i].total_price,
         vat_rate |-> items[i].vat_rate]]

(* get_sale_by_id: None is the empty tuple, a Sale s is <<s>> *)
get_sale_by_id(ss, prods, sale_id) ==
    IF sale_id \notin 1..Len(ss) THEN <<>>
    ELSE <<[ss[sale_id] EXCEPT !.items = Joined(@, prods)]>>

(* --------------------- CashManager: the day book ----------------------- *)
(* The daily_cash table is a list of rows, in insertion order; NULL in the
   actual_closing and variance columns is the empty tuple, a stored number
   v is <<v>>.  The cash_log table is write-only audit text and is left
   out. *)
DailyCashRow(date, opening_amount, user) ==
    [date |-> date, opening_amount |-> opening_amount, cash_sales |-> 0,
     card_sales |-> 0, withdrawals |-> 0, expected_closing |-> opening_amount,
     actual_closing |-> <<>>, variance |-> <<>>, reconciled |-> FALSE,
     reconciled_by |-> user, notes |-> ""]

(* SELECT * FROM daily_cash WHERE date = ?, results[0]: the index of the
   first row of the date, 0 when there is none *)
RowOf(rows, date) ==
    IF \E i \in 1..Len(rows) : rows[i].date = date
    THEN CHOOSE i \in 1..Len(rows) :
             /\ rows[i].date = date
             /\ \A j \in 1..(i - 1) : rows[j].date # date
    ELSE 0

(* a check that never finds the day started *)
DayStarted_Never(rows, date) == FALSE

(* start_day: existing = get_daily_cash(today); if existing *)
DayStarted(rows, date) == RowOf(rows, date) # 0

(* what a day-book call leaves behind: the table and the result *)
Booked(rows, res) == [daily_cash |-> rows, result |-> res]

start_day(rows, date, opening_amount, user) ==
    IF DayStarted(rows, date) THEN Booked(rows, "raise_started")
    ELSE Booked(Append(rows, DailyCashRow(date, opening_amount, user)), "true")

(* a SELECT that also sums the voided sales of the date *)
Counted_Voided(row, date) == row.date = date

(* update_sales_totals: WHERE DATE(date_time) = ? AND voided = 0 *)
Counted(row, date) == row.date = date /\ ~row.voided

(* update_sales_totals: the sums of its SELECT over the sales of the date
   that are not voided *)
RECURSIVE CashTotal(_, _)
CashTotal(ss, date) ==
    IF ss = <<>> THEN 0
    ELSE (IF ~Counted(Head(ss), date) THEN 0
          ELSE IF Head(ss).payment_method = "cash" THEN Head(ss).total_amount
          ELSE IF Head(ss).payment_method = "mixed" THEN Head(ss).cash_amount
          ELSE 0)
         + CashTotal(Tail(ss), date)

RECURSIVE CardTotal(_, _)
CardTotal(ss, date) ==
    IF ss = <<>> THEN 0
    ELSE (IF ~Counted(Head(ss), date) THEN 0
          ELSE IF Head(ss).payment_method = "card" THEN Head(ss).total_amount
          ELSE IF Head(ss).payment_method = "mixed" THEN Head(ss).card_amount
          ELSE 0)
         + CardTotal(Tail(ss), date)

(* UPDATE daily_cash SET ... WHERE date = ?: every row of the date takes
   the fields of change *)
UpdateRows(rows, date, change) ==
    [i \in 1..Len(rows) |->
         IF rows[i].date = date
         THEN [f \in DOMAIN rows[i] |->
                   IF f \in DOMAIN change THEN change[f] ELSE rows[i][f]]
         ELSE rows[i]]

(* an expected closing that adds what was taken out of the till *)
ExpectedClosing_AddsWithdrawals(opening_amount, cash, withdrawals) ==
    opening_amount + cash + withdrawals

(* update_sales_totals, record_withdrawal: the expected closing they store *)
ExpectedClosing(opening_amount, cash, withdrawals) ==
    opening_amount + cash - withdrawals

update_sales_totals(rows, ss, date) ==
    LET i == RowOf(rows, date)
        total_cash == CashTotal(ss, date)
        total_card == CardTotal(ss, date)
    IN IF i = 0 THEN Booked(rows, "false")
       ELSE Booked(UpdateRows(rows, date,
                       [cash_sales |-> total_cash, card_sales |-> total_card,
                        expected_closing |->
                            ExpectedClosing(rows[i].opening_amount, total_cash,
                                            rows[i].withdrawals)]),
                   "true")

record_withdrawal(rows, date, amount) ==
    LET i == RowOf(rows, date)
    IN IF i = 0 THEN Booked(rows, "raise_no_record")
       ELSE LET new_withdrawals == rows[i].withdrawals + amount
                new_expected == ExpectedClosing(rows[i].opening_amount,
                                                rows[i].cash_sales,
                                                new_withdrawals)
            IN Booked(UpdateRows(rows, date,
                          [withdrawals |-> new_withdrawals,
                           expected_closing |-> new_expected]),
                      "true")

(* a reconcile_till that works on the totals as they are stored *)
Rederived_Stale(rows, ss, date) == rows

(* reconcile_till: "Update sales totals first" *)
Rederived(rows, ss, date) == update_sales_totals(rows, ss, date).daily_cash

(* reconcile_till: 'balanced' if abs(variance) < 0.01 else ('over' if
   variance > 0 else 'short'), on whole currency units *)
Status(variance) ==
    IF 100 * Max(variance, 0 - variance) < 1 THEN "balanced"
    ELSE IF variance > 0 THEN "over" ELSE "short"

(* the dictionary reconcile_till returns *)
Reconciliation(expected, actual, variance) ==
    [expected |-> expected, actual |-> actual, variance |-> variance,
     status |-> Status(variance)]

(* reconcile_till; report is the dictionary returned, empty when it raises *)
reconcile_till(rows, ss, date, actual_amount, user, notes) ==
    LET updated == Rederived(rows, ss, date)
        i == RowOf(updated, date)
    IN IF i = 0
       THEN [daily_cash |-> updated, result |-> "raise_no_record",
             report |-> <<>>]
       ELSE IF updated[i].reconciled
       THEN [daily_cash |-> updated, result |-> "raise_reconciled",
             report |-> <<>>]
       ELSE LET variance == actual_amount - updated[i].expected_closing
            IN [daily_cash |->
                    UpdateRows(updated, date,
                        [actual_closing |-> <<actual_amount>>,
                         variance |-> <<variance>>,
                         reconciled |-> TRUE, reconciled_by |-> user,
                         notes |-> notes]),
                result |-> "true",
                report |-> <<Reconciliation(updated[i].expected_closing,
                                            actual_amount, variance)>>]

(* get_daily_cash: "float(row[...]) if row[...] else None" on a nullable
   numeric column: NULL and a stored 0 both read as None *)
ReadBack(column) ==
    IF column = <<>> THEN <<>> ELSE IF column[1] = 0 THEN <<>> ELSE column

(* get_daily_cash: None is the empty tuple, a DailyCash d is <<d>> *)
get_daily_cash(rows, date) ==
    LET i == RowOf(rows, date)
    IN IF i = 0 THEN <<>>
       ELSE <<[rows[i] EXCEPT !.actual_closing = ReadBack(@),
                              !.variance = ReadBack(@)]>>

(* get_cash_summary: the dictionary it returns, after the
   update_sales_totals it starts with *)
get_cash_summary(rows, ss, date) ==
    LET read == get_daily_cash(update_sales_totals(rows, ss, date).daily_cash,
                               date)
    IN IF read = <<>>
       THEN [day_started |-> FALSE, reconciled |-> FALSE]
       ELSE [day_started |-> TRUE, reconciled |-> read[1].reconciled,
             expected_closing |-> read[1].expected_closing,
             actual_closing |-> read[1].actual_closing,
             variance |-> read[1].variance]

(* generate_daily_report: for a reconciled day abs(daily_cash.variance) and
   the :>10.2f formats of actual_closing and variance raise TypeError on
   None *)
generate_daily_report(rows, date) ==
    LET read == get_daily_cash(rows, date)
    IN IF read = <<>> THEN [result |-> "no_data", status |-> ""]
       ELSE IF ~read[1].reconciled
       THEN [result |-> "report", status |-> "NOT RECONCILED"]
       ELSE IF read[1].variance = <<>> \/ read[1].actual_closing = <<>>
       THEN [result |-> "raise_type_error", status |-> ""]
       ELSE [result |-> "report",
             status |-> IF Status(read[1].variance[1]) = "balanced"
                        THEN "BALANCED"
                        ELSE IF read[1].variance[1] > 0 THEN "OVER" ELSE "SHORT"]

(* a day-book call moves only the daily_cash table *)
BookStep(r) ==
    /\ \A i \in 1..Len(r.daily_cash) : r.daily_cash[i].withdrawals <= MaxWithdrawn
    /\ daily_cash' = r.daily_cash
    /\ UNCHANGED <<products, nextProductId, movements, sales, current_sale, today,
                   schema>>

StartDay(opening_amount, user) ==
    LET r == start_day(daily_cash, today, opening_amount, user)
    IN /\ BookStep(r)
       /\ Record("start_day", r.result)

RecordWithdrawal(amount, date) ==
    LET r == record_withdrawal(daily_cash, date, amount)
    IN /\ BookStep(r)
       /\ Record("record_withdrawal", r.result)

ReconcileTill(actual_amount, user, notes, date) ==
    LET r == reconcile_till(daily_cash, sales, date, actual_amount, user, notes)
    IN /\ BookStep(r)
       /\ RecordArgs("reconcile_till", r.result, r.report)

(* update_sales_totals called for a date of the caller's choice *)
UpdateSalesTotals(date) ==
    LET r == update_sales_totals(daily_cash, sales, date)
    IN /\ BookStep(r)
       /\ RecordArgs("update_sales_totals", r.result, <<date>>)

(* get_cash_summary: "self.update_sales_totals(target_date)", then a read *)
GetCashSummary(date) ==
    LET r == update_sales_totals(daily_cash, sales, date)
    IN /\ BookStep(r)
       /\ Record("get_cash_summary", "summary")

(* midnight: date.today() moves on *)
NextDay ==
    /\ today < MaxDays
    /\ today' = today + 1
    /\ last' = Unwatched
    /\ UNCHANGED <<products, nextProductId, movements, sales, current_sale,
                   watch, daily_cash, schema>>

(* --------------------------- specifications ---------------------------- *)
Next ==
    \/ \E price \in Prices, stock \in Stocks : CreateProduct(price, stock)
    \/ \E p \in ProductIds, c \in StockCorrections : AdjustStock(p, c[1], c[2])
    \/ \E p \in ProductIds, q \in ReduceQuantities : ReduceStockForSale(p, q, 1)
    \/ \E p \in ProductIds, force \in BOOLEAN : DeleteProduct(p, force)
    \/ \E p \in ProductIds : ArchiveProduct(p)
    \/ \E p \in ProductIds : RestoreProduct(p)
    \/ StartNewSale(1)
    \/ \E p \in ProductIds, q \in Quantities : AddItemToSale(p, q)
    \/ \E p \in ProductIds : RemoveItemFromSale(p)
    \/ \E p \in ProductIds, q \in Quantities : UpdateItemQuantity(p, q)
    \/ \E m \in PaymentMethods, card \in PayAmounts :
           SetPaymentMethod(m, 0, card)
    \/ CompleteSale
    \/ \E sid \in SaleIds, v \in Voiders : VoidSale(sid, v[1], v[2])

Spec == Init /\ [][Next]_vars

(* The ledger on its own: the ProductManager calls, observed. *)
InitLedger ==
    /\ Stores
    /\ watch = {"adjust_stock", "reduce_stock_for_sale"}

NextLedger ==
    \/ \E price \in Prices, stock \in Stocks : CreateProduct(price, stock)
    \/ \E p \in ProductIds, c \in StockCorrections : AdjustStock(p, c[1], c[2])
    \/ \E p \in ProductIds, q \in Quantities : ReduceStockForSale(p, q, 1)
    \/ \E p \in ProductIds, force \in BOOLEAN : DeleteProduct(p, force)
    \/ \E p \in ProductIds : ArchiveProduct(p)
    \/ \E p \in ProductIds : RestoreProduct(p)

SpecLedger == InitLedger /\ [][NextLedger]_vars

(* The ledger on a database whose second write of a call can fail:
   adjust_stock and reduce_stock_for_sale commit the UPDATE of the stock and
   the INSERT of the movement through two separate connections, and the
   INSERT raises a database error. *)
AdjustStockLogFails(p, quantity_change, movement_type) ==
    LET r == adjust_stock(products, movements, p, quantity_change, movement_type, FALSE)
    IN /\ r.result = "raise_db"
       /\ LedgerStep(r)
       /\ Record("adjust_stock", r.result)

ReduceStockLogFails(p, quantity, sale_id) ==
    LET r == reduce_stock_for_sale(products, movements, p, quantity, sale_id, FALSE)
    IN /\ r.result = "raise_db"
       /\ LedgerStep(r)
       /\ Record("reduce_stock_for_sale", r.result)

NextFault ==
    \/ NextLedger
    \/ \E p \in ProductIds, c \in StockCorrections :
           AdjustStockLogFails(p, c[1], c[2])
    \/ \E p \in ProductIds, q \in Quantities : ReduceStockLogFails(p, q, 1)

SpecFault == InitLedger /\ [][NextFault]_vars

(* The day book over a trading history.  The database holds what up to
   MaxBooked sales of one unit of a product leave behind: each sale was
   started on a day of the calendar up to today, tendered in cash with
   change due, by card or mixed (to the unit, or with change due),
   completed, and then voided or not.  The
   rows are built by the operators of the sale flow. *)
BookTenders ==
    {<<"cash", MaxPrice + 1, 0>>, <<"card", 0, MaxPrice>>,
     <<"mixed", 1, MaxPrice - 1>>, <<"mixed", MaxPrice, 1>>}

BookTrades == [date : Days, tender : BookTenders, voided : BOOLEAN]

(* the sale of a trade as complete_sale finds it *)
TradeSale(trade) ==
    set_payment_method([NoSale EXCEPT !.active = TRUE, !.user_id = 1,
                                      !.date = trade.date,
                                      !.items =
                                          <<SaleItem(1, 1, MaxPrice,
                                                     LineVatRate(Product(MaxPrice, 1)))>>],
                       trade.tender[1], trade.tender[2], trade.tender[3]).sale

(* the tables after the first n trades of a script, on a product created
   with a stock of MaxBooked *)
RECURSIVE Traded(_, _)
Traded(script, n) ==
    IF n = 0
    THEN [products |-> [q \in {1} |-> Product(MaxPrice, MaxBooked)],
          movements |-> <<Movement(1, "addition", MaxBooked, 0, MaxBooked, 0)>>,
          sales |-> <<>>]
    ELSE LET prev == Traded(script, n - 1)
             sale == TradeSale(script[n])
             sold == ReduceAll(prev.products, prev.movements, sale.items, n)
             back == RestoreAll(sold.products, sold.movements, sale.items)
         IN IF script[n].voided
            THEN [products |-> back.products, movements |-> back.movements,
                  sales |-> Append(prev.sales,
                                   MarkVoided(SaleRow(sale), 1, "mistake"))]
            ELSE [products |-> sold.products, movements |-> sold.movements,
                  sales |-> Append(prev.sales, SaleRow(sale))]

InitBook ==
    /\ watch = {"update_sales_totals"}
    /\ today \in Days
    /\ \E n \in 0..MaxBooked : \E script \in [1..n -> BookTrades] :
           /\ \A k \in 1..n : script[k].date <= today
           /\ \A k \in 1..(n - 1) : script[k].date <= script[k + 1].date
           /\ \A k \in 1..n : validate_payment(TradeSale(script[k]))
           /\ products = Traded(script, n).products
           /\ movements = Traded(script, n).movements
           /\ sales = Traded(script, n).sales
    /\ nextProductId = 2
    /\ current_sale = NoSale
    /\ last = Unwatched
    /\ daily_cash = <<>>
    /\ schema = base_schema

NextBook ==
    \/ \E opening \in OpeningAmounts : StartDay(opening, 1)
    \/ \E amount \in WithdrawalAmounts : RecordWithdrawal(amount, today)
    \/ \E date \in Days : UpdateSalesTotals(date)
    \/ NextDay

SpecBook == InitBook /\ [][NextBook]_vars

(* The sale flow, complete_sale and void_sale observed: the builder, with
   products created, restocked and removed while a sale is open. *)
InitSale ==
    /\ Stores
    /\ watch = {"complete_sale", "void_sale"}

NextSale ==
    \/ \E price \in Prices, stock \in Stocks : CreateProduct(price, stock)
    \/ \E p \in ProductIds, c \in StockCorrections : AdjustStock(p, c[1], c[2])
    \/ \E p \in ProductIds, force \in BOOLEAN : DeleteProduct(p, force)
    \/ StartNewSale(1)
    \/ \E p \in ProductIds, q \in Quantities : AddItemToSale(p, q)
    \/ \E p \in ProductIds : RemoveItemFromSale(p)
    \/ \E p \in ProductIds, q \in Quantities : UpdateItemQuantity(p, q)
    \/ \E m \in PaymentMethods, card \in PayAmounts :
           SetPaymentMethod(m, 0, card)
    \/ CompleteSale
    \/ \E sid \in SaleIds, v \in Voiders : VoidSale(sid, v[1], v[2])

SpecSale == InitSale /\ [][NextSale]_vars

(* void_sale on a database whose writes can fail: the UPDATE that marks the
   sale voided is committed on its own connection, then the adjust_stock of
   line done + 1 raises a database error on its first write, after the
   lines before it were restored. *)
VoidSaleRestoreFails(sale_id, user, reason, done) ==
    /\ sale_id \in 1..Len(sales)
    /\ ~AlreadyVoided(sales[sale_id])
    /\ done \in 0..(Len(sales[sale_id].items) - 1)
    /\ LET r == RestoreAll(products, movements,
                           SubSeq(sales[sale_id].items, 1, done))
       IN /\ r.result = "true"
          /\ WithinBounds(r.products, r.movements)
          /\ sales' = [sales EXCEPT ![sale_id] = MarkVoided(@, user, reason)]
          /\ products' = r.products
          /\ movements' = r.movements
          /\ Record("void_sale", "raise_db")
    /\ UNCHANGED <<nextProductId, current_sale, till, schema>>

(* The sale flow with well-formed input (products that exist, positive
   quantities) on a database whose writes can fail during void_sale. *)
NextVoidFault ==
    \/ \E price \in Prices, stock \in Stocks : CreateProduct(price, stock)
    \/ \E p \in ProductIds, c \in StockCorrections : AdjustStock(p, c[1], c[2])
    \/ StartNewSale(1)
    \/ \E p \in ProductIds, q \in ReduceQuantities : AddItemToSale(p, q)
    \/ \E p \in ProductIds : RemoveItemFromSale(p)
    \/ \E m \in PaymentMethods, card \in PayAmounts :
           SetPaymentMethod(m, 0, card)
    \/ CompleteSale
    \/ \E sid \in SaleIds, v \in Voiders : VoidSale(sid, v[1], v[2])
    \/ \E sid \in SaleIds, v \in Voiders, done \in 0..(MaxProducts - 1) :
           VoidSaleRestoreFails(sid, v[1], v[2], done)

SpecVoidFault == InitSale /\ [][NextVoidFault]_vars

(* The builder on its own, its staging calls observed: products of any
   shelf stock are entered and removed while a sale is open. *)
InitBuilder ==
    /\ Stores
    /\ watch = {"add_item_to_sale", "add_item_by_barcode",
                "update_item_quantity", "remove_item_from_sale"}

NextBuilder ==
    \/ \E price \in Prices, stock \in ShelfStocks : CreateProduct(price, stock)
    \/ \E p \in ProductIds : DeleteProduct(p, TRUE)
    \/ StartNewSale(1)
    \/ \E p \in ProductIds, q \in StagedQuantities : AddItemToSale(p, q)
    \/ \E b \in Barcodes, q \in StagedQuantities : AddItemByBarcode(b, q)
    \/ \E p \in ProductIds : RemoveItemFromSale(p)
    \/ \E p \in ProductIds, q \in StagedQuantities : UpdateItemQuantity(p, q)

SpecBuilder == InitBuilder /\ [][NextBuilder]_vars

(* Tendering: every method and amount on a sale whose lines are still
   being changed, up to the completion of the sale; no sale is started once
   MaxSales sales are persisted. *)
InitPayment ==
    /\ Stores
    /\ watch = {"complete_sale"}

NextPayment ==
    \/ \E price \in Prices, stock \in Stocks : CreateProduct(price, stock)
    \/ Len(sales) < MaxSales /\ StartNewSale(1)
    \/ \E p \in ProductIds, q \in Quantities : AddItemToSale(p, q)
    \/ \E p \in ProductIds : RemoveItemFromSale(p)
    \/ \E m \in TenderMethods, cash \in TenderAmounts, card \in TenderAmounts :
           SetPaymentMethod(m, cash, card)
    \/ CompleteSale

SpecPayment == InitPayment /\ [][NextPayment]_vars

(* set_payment_method on its own, observed: every method and amount on
   every total that can be staged. *)
InitTender ==
    /\ Stores
    /\ watch = {"set_payment_method"}

NextTender ==
    \/ \E price \in Prices, stock \in Stocks : CreateProduct(price, stock)
    \/ StartNewSale(1)
    \/ \E p \in ProductIds, q \in Quantities : AddItemToSale(p, q)
    \/ \E m \in TenderMethods, cash \in TenderAmounts, card \in TenderAmounts :
           SetPaymentMethod(m, cash, card)

SpecTender == InitTender /\ [][NextTender]_vars

(* The day book, its calls observed, over the days of the calendar, with
   a cash sale of one unit completed and voided. *)
InitCash ==
    /\ Stores
    /\ watch = {"start_day", "record_withdrawal", "reconcile_till"}

NextCash ==
    \/ \E opening \in OpeningAmounts : StartDay(opening, 1)
    \/ \E amount \in WithdrawalAmounts : RecordWithdrawal(amount, today)
    \/ \E actual \in CountedAmounts : ReconcileTill(actual, 2, "counted", today)
    \/ GetCashSummary(today)
    \/ UpdateSalesTotals(today)
    \/ NextDay
    \/ nextProductId = 1 /\ CreateProduct(MaxPrice, MaxStock)
    \/ Len(sales) < MaxSales /\ StartNewSale(1)
    \/ AddItemToSale(1, 1)
    \/ SetPaymentMethod("cash", MaxPrice, 0)
    \/ CompleteSale
    \/ \E sid \in 1..MaxSales : VoidSale(sid, 1, "mistake")

SpecCash == InitCash /\ [][NextCash]_vars

(* The VAT split.  Two products stand on the shelf with one unit each,
   priced and rated from VatPrices and VatRates, VAT-inclusive or not; the
   till either has sold nothing yet or has sold one unit of each in one
   sale.  Sales are started, filled, emptied, paid by card and completed. *)
VatPrices == {2, 13}
VatRates == {14, 15}

VatProduct(price, rate, inclusive) ==
    [Product(price, 1) EXCEPT !.vat_rate = rate, !.vat_inclusive = inclusive]

InitVat ==
    /\ watch = {}
    /\ today = 1
    /\ \E shelf \in [1..2 -> [price : VatPrices, rate : VatRates,
                              inclusive : BOOLEAN]], sold \in BOOLEAN :
           LET stocked == [p \in 1..2 |-> VatProduct(shelf[p].price, shelf[p].rate,
                                                     shelf[p].inclusive)]
               logged == [p \in 1..2 |-> Movement(p, "addition", 1, 0, 1, 0)]
               sale == [NewSale(1) EXCEPT
                           !.items = [p \in 1..2 |->
                                         SaleItem(p, 1, stocked[p].sell_price,
                                                  LineVatRate(stocked[p]))],
                           !.payment_method = "card",
                           !.card_amount = stocked[1].sell_price
                                           + stocked[2].sell_price]
               r == ReduceAll(stocked, logged, sale.items, 1)
           IN IF sold
              THEN /\ products = r.products
                   /\ movements = r.movements
                   /\ sales = <<SaleRow(sale)>>
              ELSE /\ products = stocked
                   /\ movements = logged
                   /\ sales = <<>>
    /\ nextProductId = 3
    /\ current_sale = NoSale
    /\ last = Unwatched
    /\ daily_cash = <<>>
    /\ schema = base_schema

NextVat ==
    \/ StartNewSale(1)
    \/ \E p \in ProductIds : AddItemToSale(p, 1)
    \/ \E p \in ProductIds : RemoveItemFromSale(p)
    \/ SetPaymentMethod("card", 0, total_amount(current_sale))
    \/ CompleteSale

SpecVat == InitVat /\ [][NextVat]_vars

(* The builder with and without an open sale, start_new_sale, every
   staging call, the cancellation and complete_sale observed: the calls
   are made before a sale is started, while it is open and after it is
   completed, cancelled or replaced by the next one. *)
InitIdle ==
    /\ Stores
    /\ watch = {"start_new_sale", "add_item_to_sale", "add_item_by_barcode",
                "remove_item_from_sale", "update_item_quantity",
                "set_payment_method", "cancel_sale", "complete_sale"}

NextIdle ==
    \/ \E stock \in Stocks : CreateProduct(MaxPrice, stock)
    \/ Len(sales) < MaxSales /\ StartNewSale(1)
    \/ \E p \in ProductIds : AddItemToSale(p, 1)
    \/ \E b \in Barcodes : AddItemByBarcode(b, 1)
    \/ \E p \in ProductIds : RemoveItemFromSale(p)
    \/ \E p \in ProductIds, q \in {0, 1} : UpdateItemQuantity(p, q)
    \/ \E m \in TenderMethods : SetPaymentMethod(m, MaxPrice, MaxPrice)
    \/ CancelSale
    \/ CompleteSale

SpecIdle == InitIdle /\ [][NextIdle]_vars

(* Repricing under an open sale: products with two units on the shelf are
   repriced while their lines are added, merged, re-quantified and removed,
   with those calls, start_new_sale and update_product observed. *)
InitPricing ==
    /\ Stores
    /\ watch = {"start_new_sale", "update_product", "add_item_to_sale",
                "update_item_quantity", "remove_item_from_sale"}

NextPricing ==
    \/ \E price \in 1..MaxPrice : CreateProduct(price, MaxStock + 1)
    \/ \E p \in ProductIds, price \in 1..MaxPrice :
           UpdateProduct(p, "bread", price)
    \/ StartNewSale(1)
    \/ \E p \in ProductIds, q \in 1..(MaxStock + 1) : AddItemToSale(p, q)
    \/ \E p \in ProductIds, q \in 0..(MaxStock + 1) : UpdateItemQuantity(p, q)
    \/ \E p \in ProductIds : RemoveItemFromSale(p)

SpecPricing == InitPricing /\ [][NextPricing]_vars

(* The catalogue: products entered, renamed, deleted, archived and
   restored around the sale of one unit by card, with delete_product,
   archive_product and restore_product observed. *)
InitCatalog ==
    /\ Stores
    /\ watch = {"delete_product", "archive_product", "restore_product"}

NextCatalog ==
    \/ \E stock \in Stocks : CreateProduct(MaxPrice, stock)
    \/ \E p \in ProductIds, name \in {"bread", "loaf"} :
           UpdateProduct(p, name, MaxPrice)
    \/ \E p \in ProductIds, force \in BOOLEAN : DeleteProduct(p, force)
    \/ \E p \in ProductIds : ArchiveProduct(p)
    \/ \E p \in ProductIds : RestoreProduct(p)
    \/ Len(sales) < MaxSales /\ StartNewSale(1)
    \/ \E p \in ProductIds : AddItemToSale(p, 1)
    \/ SetPaymentMethod("card", 0, MaxPrice)
    \/ CompleteSale
    \/ \E sid \in 1..MaxSales : VoidSale(sid, 1, "mistake")

SpecCatalog == InitCatalog /\ [][NextCatalog]_vars

(* ------------------------------ properties ----------------------------- *)
StockOf(p) == products[p].current_stock

(* the movements of product p, in log order *)
RECURSIVE MovementsOf(_, _)
MovementsOf(movs, p) ==
    IF movs = <<>> THEN <<>>
    ELSE IF Head(movs).product_id = p
         THEN <<Head(movs)>> \o MovementsOf(Tail(movs), p)
         ELSE MovementsOf(Tail(movs), p)

RECURSIVE SumChanges(_)
SumChanges(movs) ==
    IF movs = <<>> THEN 0 ELSE Head(movs).quantity_change + SumChanges(Tail(movs))

(* the movements a step appended *)
Appended == SubSeq(movements', Len(movements) + 1, Len(movements'))

(* C1: after any sequence of calls, with any quantity arguments, every
   existing product has current_stock >= 0. *)
C1_StockNeverNegative ==
    \A p \in DOMAIN products : StockOf(p) >= 0

(* C1 witness: a product whose stock a sale or a write-off has just
   brought down to zero. *)
C1_Witness ==
    /\ movements # <<>>
    /\ LET m == movements[Len(movements)]
       IN /\ m.product_id \in DOMAIN products
          /\ m.quantity_change < 0
          /\ m.movement_type \in {"sale", "adjustment"}
          /\ StockOf(m.product_id) = 0

(* C2: every stock movement ever appended satisfies
   new_stock = previous_stock + quantity_change and new_stock >= 0. *)
C2_MovementsConsistent ==
    \A i \in 1..Len(movements) :
        /\ movements[i].new_stock =
               movements[i].previous_stock + movements[i].quantity_change
        /\ movements[i].new_stock >= 0

(* C2 witness: the log holds the movement of an archive_product that
   cleared a positive stock. *)
C2_Witness ==
    \E i \in 1..Len(movements) :
        /\ movements[i].movement_type = "adjustment"
        /\ movements[i].reference_id = 0
        /\ movements[i].previous_stock > 0
        /\ movements[i].new_stock = 0
        /\ movements[i].product_id \in DOMAIN products
        /\ products[movements[i].product_id].archived

(* C8: after any sequence of completed operations, the current_stock of
   every existing product equals the sum of quantity_change over the
   movement records of that product. *)
C8_StockIsSumOfMovements ==
    \A p \in DOMAIN products : StockOf(p) = SumChanges(MovementsOf(movements, p))

(* C8 witness: a product in stock whose log holds its initial stock, a sale
   and a later movement. *)
C8_Witness ==
    \E p \in DOMAIN products :
        /\ StockOf(p) > 0
        /\ Len(MovementsOf(movements, p)) >= 3
        /\ \E i \in 1..Len(movements) :
               movements[i].product_id = p /\ movements[i].movement_type = "sale"

(* C6: reduce_stock_for_sale with quantity > current_stock fails with an
   insufficient-stock error before any mutation: the stock is unchanged and
   no movement is appended. *)
C6_ReduceRefusesBeforeMutation ==
    [][\A p \in ProductIds, q \in Quantities :
           (/\ Exists(p)
            /\ q > StockOf(p)
            /\ ReduceStockForSale(p, q, 1))
           => /\ last'.result = "raise_insufficient"
              /\ products' = products
              /\ movements' = movements]_vars

(* C6 witness: reduce_stock_for_sale has just refused a quantity of one
   more than the stock of a product that is in stock. *)
C6_Witness ==
    /\ last.op = "reduce_stock_for_sale"
    /\ last.result = "raise_insufficient"
    /\ \E p \in DOMAIN products : StockOf(p) > 0

(* the step is a ledger call and appended exactly the movement that
   describes the change of stock it made *)
PairedWithMovement ==
    /\ Len(Appended) = 1
    /\ LET m == Appended[1]
       IN /\ m.product_id \in DOMAIN products
          /\ m.previous_stock = StockOf(m.product_id)
          /\ products' = SetStock(products, m.product_id, m.new_stock)

(* C7: adjust_stock and reduce_stock_for_sale are atomic with respect to
   failure: in no state, including one reached when the call fails between
   its two database writes, is the stock updated without the matching
   movement record or a movement record present without the stock update. *)
C7_LedgerCallsAtomic ==
    [][last'.op \in {"adjust_stock", "reduce_stock_for_sale"}
           => \/ products' = products /\ movements' = movements
              \/ PairedWithMovement]_vars

Raised(res) ==
    res \in {"raise_no_sale", "raise_empty", "raise_payment", "raise_insufficient",
             "raise_negative", "raise_voided", "raise_db"}

(* C3: complete_sale is all-or-nothing: if it raises an error, then no sale
   row and no sale-item row has been persisted and no product's stock has
   changed. *)
C3_CompleteAllOrNothing ==
    [][(last'.op = "complete_sale" /\ Raised(last'.result))
           => /\ sales' = sales
              /\ products' = products
              /\ movements' = movements]_vars

(* C4: complete_sale on an open sale with no items, or with
   cash_amount + card_amount < total_amount, raises an error and has no
   side effect: the sale stays the open sale, unchanged, nothing is
   persisted, no stock and no movement changes. *)
C4_RejectedCompleteHasNoEffect ==
    [][(/\ current_sale.active
        /\ \/ current_sale.items = <<>>
           \/ current_sale.cash_amount + current_sale.card_amount
                  < total_amount(current_sale)
        /\ CompleteSale)
           => /\ last'.result \in {"raise_empty", "raise_payment"}
              /\ current_sale' = current_sale
              /\ sales' = sales
              /\ products' = products
              /\ movements' = movements]_vars

(* C4 witness: complete_sale has just refused an open sale with a line
   whose total the tendered amounts do not cover. *)
C4_Witness ==
    /\ last.op = "complete_sale"
    /\ last.result = "raise_payment"
    /\ current_sale.active
    /\ current_sale.items # <<>>
    /\ current_sale.cash_amount + current_sale.card_amount
           < total_amount(current_sale)
    /\ sales = <<>>

(* the movements of type "sale" among movs that belong to product p *)
SaleMovementsOf(movs, p) ==
    {i \in 1..Len(movs) : movs[i].product_id = p /\ movs[i].movement_type = "sale"}

(* C5: whenever complete_sale returns a sale id, the sale and all its line
   items are persisted and, for every line item, the product's stock has
   gone down by exactly the line quantity with exactly one "sale" movement
   appended (quantity_change = -quantity, previous_stock = the stock before,
   reference = the sale id): no line is skipped. *)
C5_CompletedSaleReducesEveryLine ==
    [][(last'.op = "complete_sale" /\ last'.result = "id")
           => LET items == current_sale.items
                  sid == last'.sid
              IN /\ Len(sales') = Len(sales) + 1
                 /\ sid = Len(sales')
                 /\ sales'[sid].items = items
                 /\ \A i \in 1..Len(items) :
                        LET p == items[i].product_id
                        IN /\ p \in DOMAIN products
                           /\ p \in DOMAIN products'
                           /\ products'[p].current_stock =
                                  StockOf(p) - items[i].quantity
                           /\ \E j \in 1..Len(Appended) :
                                  /\ SaleMovementsOf(Appended, p) = {j}
                                  /\ Appended[j].quantity_change =
                                         0 - items[i].quantity
                                  /\ Appended[j].previous_stock = StockOf(p)
                                  /\ Appended[j].reference_id = sid]_vars

(* C9: void_sale on a sale that is already voided fails with an error and
   is a no-op: the stock of every product, the movement log and the sale's
   voided flag and void metadata stay as the first void left them. *)
C9_SecondVoidIsNoOp ==
    [][\A sid \in SaleIds, v \in Voiders :
           (/\ sid \in 1..Len(sales)
            /\ sales[sid].voided
            /\ VoidSale(sid, v[1], v[2]))
           => /\ last'.result = "raise_voided"
              /\ products' = products
              /\ movements' = movements
              /\ sales' = sales]_vars

(* C9 witness: void_sale has just refused a sale whose first void restored
   stock. *)
C9_Witness ==
    /\ last.op = "void_sale"
    /\ last.result = "raise_voided"
    /\ \E sid \in 1..Len(sales) :
           /\ sales[sid].voided
           /\ sales[sid].void_reason \in {"mistake", "damaged"}
    /\ \E i \in 1..Len(movements) :
           /\ movements[i].movement_type = "adjustment"
           /\ movements[i].quantity_change > 0

(* C10: completing a sale and then voiding it, with nothing in between,
   returns the stock of every product in the sale to its value before
   complete_sale, marks the sale voided with the given user and reason, and
   appends one "adjustment" movement with quantity_change = +quantity per
   original line item. *)
C10_VoidUndoesComplete ==
    [][\A v \in Voiders :
           (/\ last.op = "complete_sale"
            /\ last.result = "id"
            /\ VoidSale(last.sid, v[1], v[2]))
           => LET items == sales[last.sid].items
              IN /\ sales'[last.sid].voided
                 /\ sales'[last.sid].voided_by = v[1]
                 /\ sales'[last.sid].void_reason = v[2]
                 /\ \A i \in 1..Len(items) :
                        LET p == items[i].product_id
                        IN (p \in DOMAIN last.before)
                               => /\ p \in DOMAIN products'
                                  /\ products'[p].current_stock =
                                         last.before[p].current_stock
                 /\ Len(Appended) = Len(items)
                 /\ \A i \in 1..Len(items) :
                        /\ Appended[i].product_id = items[i].product_id
                        /\ Appended[i].movement_type = "adjustment"
                        /\ Appended[i].quantity_change = items[i].quantity]_vars

(* the step restored every line of items: one "adjustment" movement of
   +quantity per line, in order, each on the stock it found *)
RECURSIVE RestoredFrom(_, _, _)
RestoredFrom(prods, movs, items) ==
    IF items = <<>> THEN movs = <<>> /\ products' = prods
    ELSE /\ movs # <<>>
         /\ Head(items).product_id \in DOMAIN prods
         /\ Head(movs) = Movement(Head(items).product_id, "adjustment",
                                  Head(items).quantity,
                                  prods[Head(items).product_id].current_stock,
                                  prods[Head(items).product_id].current_stock
                                      + Head(items).quantity, 0)
         /\ RestoredFrom(SetStock(prods, Head(items).product_id,
                                  Head(movs).new_stock),
                         Tail(movs), Tail(items))

(* C11: void_sale of a persisted, not yet voided sale whose products exist
   never fails because of stock levels: whatever the stock and whatever the
   lines the sale was completed with, it returns success and the restoration
   of every line is applied. *)
C11_VoidNeverFailsOnStock ==
    [][\A sid \in SaleIds, v \in Voiders :
           (/\ sid \in 1..Len(sales)
            /\ ~sales[sid].voided
            /\ \A i \in 1..Len(sales[sid].items) :
                   sales[sid].items[i].product_id \in DOMAIN products
            /\ VoidSale(sid, v[1], v[2]))
           => /\ last'.result = "true"
              /\ RestoredFrom(products, Appended, sales[sid].items)]_vars

(* C12: void compensation is atomic: whenever a step marks a sale voided,
   including a void_sale that fails partway, the stock of every one of its
   lines has been restored by that step; no sale is voided with only some
   or none of its lines restored. *)
C12_VoidedOnlyWithAllLinesRestored ==
    [][\A sid \in 1..Len(sales) :
           (~sales[sid].voided /\ sales'[sid].voided)
           => RestoredFrom(products, Appended, sales[sid].items)]_vars

(* C16: every line of the open sale and of every persisted sale has a
   quantity > 0, whatever integer quantities were keyed in. *)
C16_LineQuantitiesPositive ==
    /\ \A i \in 1..Len(current_sale.items) : current_sale.items[i].quantity > 0
    /\ \A sid \in 1..Len(sales) :
           \A i \in 1..Len(sales[sid].items) : sales[sid].items[i].quantity > 0

(* C19: the sale lifecycle only moves forward: a persisted sale stays
   persisted with its line items, total and payment fields unchanged, the
   only later change is the void transition, and once the voided flag is
   set it is never cleared and the void metadata never changes. *)
C19_SaleLifecycleForwardOnly ==
    [][\A sid \in 1..Len(sales) :
           /\ sid \in 1..Len(sales')
           /\ \A f \in {"user_id", "date", "items", "total_amount", "payment_method",
                         "cash_amount", "card_amount", "change_given"} :
                  sales'[sid][f] = sales[sid][f]
           /\ sales[sid].voided => sales'[sid] = sales[sid]]_vars

(* C19 witness: a sale was persisted and voided, and the till has since
   started a new sale and staged a line on it. *)
C19_Witness ==
    /\ \E sid \in 1..Len(sales) : sales[sid].voided /\ sales[sid].voided_by = 2
    /\ current_sale.active
    /\ current_sale.items # <<>>

(* quantity already staged for product p in items, 0 when it has no line *)
StagedOf(items, p) ==
    IF LineOf(items, p) = 0 THEN 0 ELSE items[LineOf(items, p)].quantity

(* C13: add_item_to_sale on an open sale succeeds when the quantity equals
   the product's current_stock and fails with an insufficient-stock error
   when it is current_stock + 1, more generally whenever the quantity or
   the combined staged quantity exceeds current_stock; on failure the
   sale's line items are unchanged. *)
C13_AddItemStockBoundary ==
    [][\A p \in ProductIds, q \in StagedQuantities :
           (/\ current_sale.active
            /\ Exists(p)
            /\ AddItemToSale(p, q))
           => IF \/ q > StockOf(p)
                 \/ LineOf(current_sale.items, p) # 0
                    /\ StagedOf(current_sale.items, p) + q > StockOf(p)
              THEN /\ last'.result = "raise_insufficient"
                   /\ current_sale' = current_sale
              ELSE last'.result = "true"]_vars

(* C13 witness: a product has its whole stock staged on one line, and
   add_item_to_sale has just refused one more unit of it. *)
C13_Witness ==
    /\ last.op = "add_item_to_sale"
    /\ last.result = "raise_insufficient"
    /\ last.before = current_sale.items
    /\ \E p \in DOMAIN products :
           /\ StockOf(p) > 0
           /\ StagedOf(current_sale.items, p) = StockOf(p)

(* no two lines of items are for the same product *)
OneLinePerProduct(items) ==
    \A i, j \in 1..Len(items) : items[i].product_id = items[j].product_id => i = j

(* C14: the open sale has at most one line per product after any builder
   call; adding a product that already is a line increases that line by the
   added quantity, and only if the combined quantity does not exceed
   current_stock, and otherwise leaves the lines unchanged. *)
C14_OneLinePerProductMerged ==
    [][/\ OneLinePerProduct(current_sale'.items)
       /\ \A p \in ProductIds, q \in StagedQuantities :
              (/\ current_sale.active
               /\ Exists(p)
               /\ LineOf(current_sale.items, p) # 0
               /\ \/ AddItemToSale(p, q)
                  \/ AddItemByBarcode(BarcodeOf(p), q))
              => LET i == LineOf(current_sale.items, p)
                     combined == current_sale.items[i].quantity + q
                 IN IF last'.result = "true"
                    THEN /\ combined <= StockOf(p)
                         /\ current_sale'.items =
                                [current_sale.items EXCEPT
                                     ![i].quantity = combined,
                                     ![i].total_price = @ + q * current_sale.items[i].unit_price]
                    ELSE current_sale'.items = current_sale.items]_vars

(* C14 witness: an add of a product that had a line of one unit has just
   been merged into that line, which now holds two. *)
C14_Witness ==
    /\ last.op \in {"add_item_to_sale", "add_item_by_barcode"}
    /\ last.result = "true"
    /\ \E p \in DOMAIN products :
           /\ StagedOf(last.before, p) = 1
           /\ StagedOf(current_sale.items, p) = 2
    /\ Len(last.before) = Len(current_sale.items)

(* C15: on an open sale, add_item_to_sale with an unknown product id and
   add_item_by_barcode with an unknown barcode raise a not-found error and
   have no partial effect: line items, payment fields, stock and persisted
   data are unchanged. *)
C15_UnknownProductNoEffect ==
    [][/\ \A p \in ProductIds, q \in StagedQuantities :
              (current_sale.active /\ ~Exists(p) /\ AddItemToSale(p, q))
              => /\ last'.result = "raise_notfound"
                 /\ UNCHANGED <<current_sale, products, movements, sales>>
       /\ \A b \in Barcodes, q \in StagedQuantities :
              (/\ current_sale.active
               /\ \A p \in DOMAIN products : BarcodeOf(p) # b
               /\ AddItemByBarcode(b, q))
              => /\ last'.result = "raise_notfound"
                 /\ UNCHANGED <<current_sale, products, movements, sales>>]_vars

(* C15 witness: a scan of a barcode that no product carries has just been
   refused on an open sale that has a line staged. *)
C15_Witness ==
    /\ last.op = "add_item_by_barcode"
    /\ last.result = "raise_notfound"
    /\ current_sale.active
    /\ current_sale.items # <<>>
    /\ last.before = current_sale.items
    /\ products # <<>>

(* C17: validate_payment is true iff cash_amount + card_amount >=
   total_amount of the open sale, so every persisted sale has
   cash_amount + card_amount >= its total, the total being that of its
   final line items, and change_given >= 0. *)
C17_PersistedSalesAreCovered ==
    /\ validate_payment(current_sale)
           <=> /\ current_sale.active
               /\ current_sale.cash_amount + current_sale.card_amount
                      >= SumTotals(current_sale.items)
    /\ \A sid \in 1..Len(sales) :
           /\ sales[sid].total_amount = SumTotals(sales[sid].items)
           /\ sales[sid].cash_amount + sales[sid].card_amount
                  >= sales[sid].total_amount
           /\ sales[sid].change_given >= 0

(* C17 witness: a persisted sale of a positive total, paid mixed, whose cash
   and card together are exactly the total. *)
C17_Witness ==
    \E sid \in 1..Len(sales) :
        /\ sales[sid].total_amount > 0
        /\ sales[sid].payment_method = "mixed"
        /\ sales[sid].cash_amount > 0
        /\ sales[sid].card_amount > 0
        /\ sales[sid].cash_amount + sales[sid].card_amount = sales[sid].total_amount

(* C18: set_payment_method computes change_given as: cash method
   max(0, cash - total); card method 0; mixed method
   max(0, cash - max(0, total - card)), so that when the card alone covers
   the total all cash tendered is change; an unknown method raises and
   leaves the payment fields unchanged. *)
C18_ChangeGivenFormula ==
    [][(last'.op = "set_payment_method" /\ current_sale.active)
           => LET m == last'.args[1]
                  cash == last'.args[2]
                  card == last'.args[3]
                  total == SumTotals(current_sale.items)
                  cashDue == IF total - card > 0 THEN total - card ELSE 0
              IN IF m \in {"cash", "card", "mixed"}
                 THEN /\ last'.result = "true"
                      /\ current_sale'.payment_method = m
                      /\ current_sale'.cash_amount = cash
                      /\ current_sale'.card_amount = card
                      /\ current_sale'.change_given =
                             CASE m = "cash" ->
                                      IF cash - total > 0 THEN cash - total ELSE 0
                               [] m = "card" -> 0
                               [] m = "mixed" ->
                                      IF cash - cashDue > 0 THEN cash - cashDue ELSE 0
                 ELSE /\ last'.result = "raise_invalid_method"
                      /\ current_sale' = current_sale]_vars

(* C18 witness: a mixed payment has just been set whose card amount alone
   covers a positive total, so that all the cash tendered is change. *)
C18_Witness ==
    /\ last.op = "set_payment_method"
    /\ last.result = "true"
    /\ current_sale.payment_method = "mixed"
    /\ SumTotals(current_sale.items) > 0
    /\ current_sale.card_amount >= SumTotals(current_sale.items)
    /\ current_sale.cash_amount > 0
    /\ current_sale.change_given = current_sale.cash_amount

(* C20: start_day fails with an error when a daily cash record for today
   already exists and leaves that record unchanged; in every reachable
   state there is at most one daily cash record per date. *)
C20_OneDayStartPerDate ==
    [][/\ \A opening \in OpeningAmounts, user \in Users :
              (/\ \E i \in 1..Len(daily_cash) : daily_cash[i].date = today
               /\ StartDay(opening, user))
              => /\ last'.result = "raise_started"
                 /\ daily_cash' = daily_cash
       /\ \A i, j \in 1..Len(daily_cash') :
              daily_cash'[i].date = daily_cash'[j].date => i = j]_vars

(* C20 witness: on the second day, with both days started, start_day has
   just been refused. *)
C20_Witness ==
    /\ last.op = "start_day"
    /\ last.result = "raise_started"
    /\ today = MaxDays
    /\ \A d \in Days : \E i \in 1..Len(daily_cash) : daily_cash[i].date = d

(* C21: record_withdrawal is accepted only while the date is started and
   not yet reconciled: with no day-start record it raises, and on a
   reconciled date it raises and changes nothing, so the withdrawals and
   the expected_closing of a reconciled date never change. *)
C21_WithdrawalOnlyWhileStarted ==
    [][\A amount \in WithdrawalAmounts :
           LET i == RowOf(daily_cash, today)
           IN /\ (i = 0 /\ RecordWithdrawal(amount, today))
                  => /\ last'.result = "raise_no_record"
                     /\ daily_cash' = daily_cash
              /\ (/\ i # 0
                  /\ daily_cash[i].reconciled
                  /\ RecordWithdrawal(amount, today))
                  => /\ last'.result \notin {"true", "false"}
                     /\ daily_cash' = daily_cash]_vars

(* C22: reconcile_till on a date that is already reconciled raises and is
   a no-op: every field of the daily cash record is unchanged, even when
   sales were completed or voided for the date after the first
   reconciliation. *)
C22_SecondReconcileIsNoOp ==
    [][\A actual \in CountedAmounts :
           LET i == RowOf(daily_cash, today)
           IN (/\ i # 0
               /\ daily_cash[i].reconciled
               /\ ReconcileTill(actual, 2, "counted", today))
              => /\ last'.result = "raise_reconciled"
                 /\ daily_cash' = daily_cash]_vars

(* the sum of f over the indices in S *)
RECURSIVE SumOver(_, _)
SumOver(f, S) ==
    IF S = {} THEN 0
    ELSE LET k == CHOOSE k \in S : TRUE IN f[k] + SumOver(f, S \ {k})

(* C23: update_sales_totals(date) on a started date sets cash_sales to the
   sum of total_amount over the cash sales of the date that are not voided
   plus the cash portion of its mixed sales that are not voided, card_sales
   likewise for card, and expected_closing to opening + cash_sales -
   withdrawals, and touches nothing else; voided sales contribute nothing;
   with no record for the date it changes nothing and returns false. *)
C23_UpdateSalesTotals ==
    [][last'.op = "update_sales_totals" =>
          LET date == last'.args[1]
              i == RowOf(daily_cash, date)
              live == {k \in 1..Len(sales) :
                          sales[k].date = date /\ ~sales[k].voided}
              cash == [k \in 1..Len(sales) |->
                          IF sales[k].payment_method = "cash"
                          THEN sales[k].total_amount
                          ELSE IF sales[k].payment_method = "mixed"
                          THEN sales[k].cash_amount ELSE 0]
              card == [k \in 1..Len(sales) |->
                          IF sales[k].payment_method = "card"
                          THEN sales[k].total_amount
                          ELSE IF sales[k].payment_method = "mixed"
                          THEN sales[k].card_amount ELSE 0]
          IN IF i = 0
             THEN /\ last'.result = "false"
                  /\ daily_cash' = daily_cash
             ELSE /\ last'.result = "true"
                  /\ daily_cash' =
                         [daily_cash EXCEPT ![i] =
                              [@ EXCEPT !.cash_sales = SumOver(cash, live),
                                        !.card_sales = SumOver(card, live),
                                        !.expected_closing =
                                            daily_cash[i].opening_amount
                                                + SumOver(cash, live)
                                                - daily_cash[i].withdrawals]]]_vars

(* C23 witness: the totals of a date have just been derived from a cash
   sale with change given and a mixed sale, after a withdrawal, with a sale
   of the date before left out. *)
C23_Witness ==
    /\ last.op = "update_sales_totals"
    /\ last.result = "true"
    /\ Len(sales) = 2
    /\ \E i \in 1..Len(daily_cash) :
           /\ daily_cash[i].date = last.args[1]
           /\ daily_cash[i].withdrawals > 0
           /\ daily_cash[i].cash_sales > 0
           /\ daily_cash[i].card_sales > 0
           /\ daily_cash[i].cash_sales + daily_cash[i].card_sales
                  < sales[1].total_amount + sales[2].total_amount

(* C24: with the day started at O and cash sales of the date totalling S
   completed, when record_withdrawal(W) returns the record's
   expected_closing is O + S - W. *)
C24_ExpectedClosingAfterWithdrawal ==
    [][\A amount \in WithdrawalAmounts :
           LET i == RowOf(daily_cash, today)
           IN (/\ i # 0
               /\ ~daily_cash[i].reconciled
               /\ \A k \in 1..Len(sales) : ~sales[k].voided
               /\ RecordWithdrawal(amount, today)
               /\ last'.result = "true")
              => daily_cash'[i].expected_closing
                     = daily_cash[i].opening_amount + CashTotal(sales, today)
                           - daily_cash'[i].withdrawals]_vars

(* C25: reconcile_till(actual) on a started, unreconciled date re-derives
   the sales totals first, so the expected value it uses counts every sale
   of the date that is stored and not voided; it stores and returns
   variance = actual - expected, sets reconciled, and reports 'balanced'
   iff |variance| < 0.01, 'over' iff variance > 0 and 'short' iff
   variance < 0 otherwise; with no record for the date it raises and
   changes nothing. *)
C25_ReconcileRederivesAndClassifies ==
    [][last'.op = "reconcile_till" =>
          LET i == RowOf(daily_cash, today)
          IN IF i = 0
             THEN /\ last'.result = "raise_no_record"
                  /\ daily_cash' = daily_cash
             ELSE ~daily_cash[i].reconciled =>
                  LET expected == daily_cash[i].opening_amount
                                      + CashTotal(sales, today)
                                      - daily_cash[i].withdrawals
                      report == last'.args[1]
                      balanced == 100 * report.variance < 1
                                      /\ 100 * report.variance > 0 - 1
                  IN /\ last'.result = "true"
                     /\ Len(last'.args) = 1
                     /\ report.expected = expected
                     /\ report.variance = report.actual - expected
                     /\ daily_cash'[i].actual_closing = <<report.actual>>
                     /\ daily_cash'[i].variance = <<report.variance>>
                     /\ daily_cash'[i].expected_closing = expected
                     /\ daily_cash'[i].cash_sales = CashTotal(sales, today)
                     /\ daily_cash'[i].card_sales = CardTotal(sales, today)
                     /\ daily_cash'[i].reconciled
                     /\ (report.status = "balanced") = balanced
                     /\ (report.status = "over")
                            = (report.variance > 0 /\ ~balanced)
                     /\ (report.status = "short")
                            = (report.variance < 0 /\ ~balanced)]_vars

(* C25 witness: a till has just been reconciled balanced, against an expected
   value that counts a cash sale the stored totals had not yet seen. *)
C25_Witness ==
    /\ last.op = "reconcile_till"
    /\ last.result = "true"
    /\ last.args[1].status = "balanced"
    /\ last.args[1].expected
           = daily_cash[RowOf(daily_cash, today)].opening_amount
                 + CashTotal(sales, today)
    /\ CashTotal(sales, today) > 0

(* C26: delete_product without force on a product that has any sale line
   item or any stock movement raises and leaves the product, its stock and
   all records unchanged; it deletes the product, and writes nothing else,
   only when can_delete_product reports can_delete, which it does exactly
   when there are no sale items and no movements; and can_delete_product
   recommends 'archive' exactly when can_delete is false. *)
C26_DeleteRefusedWithHistory ==
    [][/\ (/\ last'.op = "delete_product"
           /\ ~last'.args[2]
           /\ Exists(last'.args[1]))
          => LET p == last'.args[1]
                 HasHistory ==
                     \/ \E k \in 1..Len(sales) :
                            \E i \in 1..Len(sales[k].items) :
                                sales[k].items[i].product_id = p
                     \/ \E k \in 1..Len(movements) :
                            movements[k].product_id = p
             IN /\ can_delete_product(p).can_delete = ~HasHistory
                /\ IF HasHistory
                   THEN /\ last'.result = "raise_has_history"
                        /\ UNCHANGED <<products, movements, sales>>
                   ELSE /\ last'.result = "true"
                        /\ can_delete_product(p).can_delete
                        /\ DOMAIN products' = DOMAIN products \ {p}
                        /\ \A q \in DOMAIN products' : products'[q] = products[q]
                        /\ UNCHANGED <<movements, sales>>
       /\ \A p \in DOMAIN products :
              (can_delete_product(p).recommendation = "archive")
                  = ~can_delete_product(p).can_delete]_vars

(* C26 witness: an unforced delete_product has just been refused for a
   product that was never sold but has its initial stock on record, next
   to a product without history. *)
C26_Witness ==
    /\ last.op = "delete_product"
    /\ last.result = "raise_has_history"
    /\ last.args[2] = FALSE
    /\ sales_count(sales, last.args[1]) = 0
    /\ movements_count(movements, last.args[1]) > 0
    /\ \E q \in DOMAIN products : can_delete_product(q).can_delete

(* C27 as stated: no operation, void_sale included, ever edits or deletes
   an existing stock movement, sale or sale line item. *)
C27_AuditTrailNeverEdited ==
    [][/\ Len(movements') >= Len(movements)
       /\ \A k \in 1..Len(movements) : movements'[k] = movements[k]
       /\ Len(sales') >= Len(sales)
       /\ \A k \in 1..Len(sales) : sales'[k] = sales[k]]_vars

(* C27, amended: no operation ever deletes an existing stock movement, sale
   or sale line item, or edits one, except that void_sale fills in the void
   fields (voided, voided_by, void_reason) of the sale it voids; after a
   product is force-deleted its earlier movements and the sales containing
   it are still stored, and get_sale_by_id still returns every line item
   of every stored sale. *)
C27_AuditTrailAppendOnly ==
    [][/\ Len(movements') >= Len(movements)
       /\ \A k \in 1..Len(movements) : movements'[k] = movements[k]
       /\ Len(sales') >= Len(sales)
       /\ \A k \in 1..Len(sales) :
              \/ sales'[k] = sales[k]
              \/ /\ ~sales[k].voided
                 /\ sales'[k].voided
                 /\ \A f \in DOMAIN sales[k] \ {"voided", "voided_by", "void_reason"} :
                        sales'[k][f] = sales[k][f]
       /\ \A k \in 1..Len(sales') :
              LET sale == get_sale_by_id(sales', products', k)[1]
              IN /\ Len(sale.items) = Len(sales'[k].items)
                 /\ \A i \in 1..Len(sale.items) :
                        /\ sale.items[i].product_id = sales'[k].items[i].product_id
                        /\ sale.items[i].quantity = sales'[k].items[i].quantity
                        /\ sale.items[i].total_price
                               = sales'[k].items[i].total_price]_vars

(* C27 witness: a product that was sold has just been force-deleted; its
   movements and the sale are on record. *)
C27_Witness ==
    /\ last.op = "delete_product"
    /\ last.result = "true"
    /\ last.args[2] = TRUE
    /\ ~Exists(last.args[1])
    /\ sales_count(sales, last.args[1]) > 0
    /\ movements_count(movements, last.args[1]) > 1

(* C28: the product name of a line item is a snapshot: once a sale is
   completed, no later step (renaming the product with update_product,
   removing the product) changes the product names get_sale_by_id returns
   for the sale's line items. *)
C28_ProductNameSnapshot ==
    [][\A k \in 1..Len(sales) :
           LET was == get_sale_by_id(sales, products, k)[1].items
               is == get_sale_by_id(sales', products', k)[1].items
           IN \A i \in 1..Len(was) :
                  is[i].product_name = was[i].product_name]_vars

(* C29: after archive_product(p) succeeds p is absent from
   get_all_products(include_archived=False) and present in
   get_archived_products(); after restore_product(p) succeeds p is in the
   active list and not in the archived list; restore_product on a product
   that is not archived returns false and appends no movement. *)
C29_ArchiveRestoreLists ==
    [][/\ (last'.op = "archive_product" /\ last'.result = "true")
          => /\ last'.args[1] \notin
                    get_all_products(products', schema', FALSE).ids
             /\ last'.args[1] \in get_archived_products(products', schema')
       /\ (last'.op = "restore_product" /\ last'.result = "true")
          => /\ last'.args[1] \in
                    get_all_products(products', schema', FALSE).ids
             /\ last'.args[1] \notin get_archived_products(products', schema')
       /\ \A p \in DOMAIN products :
              (~products[p].archived /\ RestoreProduct(p))
              => /\ last'.result = "false"
                 /\ movements' = movements]_vars

(* x and y differ by less than 0.01 *)
Close(x, y) ==
    LET e == IF x.e < y.e THEN (IF x.e < 0 THEN x.e ELSE 0)
             ELSE (IF y.e < 0 THEN y.e ELSE 0)
        a == Shl(x.m, x.e - e)
        b == Shl(y.m, y.e - e)
        d == IF BLess(a, b) THEN Trim(BSub(b, a, 0)) ELSE Trim(BSub(a, b, 0))
    IN BLess(Trim(BMulSmall(d, 100, 0)), Shl(<<1>>, 0 - e))

(* v differs from the share total * rate / (100 + rate) by less than 0.01:
   |100 * (100 + rate) * v - 100 * total * rate| < 100 + rate *)
NearShare(v, total, rate) ==
    LET k == IF v.e < 0 THEN 0 - v.e ELSE 0
        a == Shl(BMulSmall(v.m, 100 * (100 + rate), 0), v.e + k)
        b == Shl(BMulSmall(Trim(<<total>>), 100 * rate, 0), k)
        d == IF BLess(a, b) THEN Trim(BSub(b, a, 0)) ELSE Trim(BSub(a, b, 0))
    IN BLess(d, Shl(<<100 + rate>>, k))

(* each line of the sale contributes to vat_amount what the product it was
   added from asks for: its share when VAT-inclusive, nothing otherwise *)
LinesContribute(sale) ==
    /\ \A i \in 1..Len(sale.items) :
           LET item == sale.items[i]
               from == products[item.product_id]
               v == calculate_vat_amount(item)
           IN IF from.vat_inclusive
              THEN NearShare(v, item.total_price, from.vat_rate)
              ELSE v = Float(0)
    /\ vat_amount(sale)
           = SumFloats([i \in 1..Len(sale.items) |->
                           calculate_vat_amount(sale.items[i])])

(* C30 as stated: for any sale, open or reloaded, subtotal + vat_amount
   == total_amount, each VAT-inclusive line contributing
   total * rate / (100 + rate) to vat_amount and a line added from a
   product whose VAT-inclusive flag is off contributing 0 whatever the
   product's nominal rate. *)
C30_VatSplitExact ==
    /\ current_sale.active =>
           /\ FAdd(subtotal(current_sale), vat_amount(current_sale))
                  = Float(total_amount(current_sale))
           /\ LinesContribute(current_sale)
    /\ \A sid \in 1..Len(sales) :
           LET sale == get_sale_by_id(sales, products, sid)[1]
           IN /\ FAdd(subtotal(sale), vat_amount(sale)) = Float(total_amount(sale))
              /\ LinesContribute(sale)

(* C30, amended: for any sale, open or reloaded, subtotal + vat_amount is
   within 0.01 of total_amount; each VAT-inclusive line contributes
   total * rate / (100 + rate) to vat_amount, and a line added from a
   product whose VAT-inclusive flag is off contributes 0 whatever the
   product's nominal rate. *)
C30_VatSplitWithinTolerance ==
    /\ current_sale.active =>
           /\ Close(FAdd(subtotal(current_sale), vat_amount(current_sale)),
                    Float(total_amount(current_sale)))
           /\ LinesContribute(current_sale)
    /\ \A sid \in 1..Len(sales) :
           LET sale == get_sale_by_id(sales, products, sid)[1]
           IN /\ Close(FAdd(subtotal(sale), vat_amount(sale)),
                       Float(total_amount(sale)))
              /\ LinesContribute(sale)

(* an open sale of two lines, the first added from a VAT-inclusive product,
   the second from a product rated above 0 whose flag is off *)
C30_Witness ==
    /\ current_sale.active
    /\ Len(current_sale.items) = 2
    /\ products[current_sale.items[1].product_id].vat_inclusive
    /\ ~products[current_sale.items[2].product_id].vat_inclusive
    /\ products[current_sale.items[2].product_id].vat_rate > 0
    /\ vat_amount(current_sale) # Float(0)

(* C31: update_item_quantity(product, n) on an open sale.  If n <= 0 the
   result is that of remove_item_from_sale(product): the product's line is
   gone and the call returns true.  If 0 < n <= current_stock and the
   product is a line, the line's quantity becomes n and its total
   unit_price * n.  If n > current_stock the call raises an
   insufficient-stock error and the lines are unchanged.  If the product is
   not a line of the sale, nothing changes.  In every case nothing but the
   lines of the sale changes. *)
C31_UpdateItemQuantity ==
    [][(last'.op = "update_item_quantity" /\ current_sale.active) =>
          LET p == last'.args[1]
              n == last'.args[2]
              items == current_sale.items
              after == current_sale'.items
              isLine == \E i \in 1..Len(items) : items[i].product_id = p
          IN /\ current_sale' = [current_sale EXCEPT !.items = after]
             /\ n <= 0 =>
                    /\ last'.result = "true"
                    /\ after = SelectSeq(items, LAMBDA item : item.product_id # p)
             /\ (n > 0 /\ Exists(p) /\ n <= products[p].current_stock /\ isLine) =>
                    /\ last'.result = "true"
                    /\ Len(after) = Len(items)
                    /\ \A i \in 1..Len(items) :
                           IF items[i].product_id = p
                           THEN after[i] = [items[i] EXCEPT
                                               !.quantity = n,
                                               !.total_price = items[i].unit_price * n]
                           ELSE after[i] = items[i]
             /\ (n > 0 /\ Exists(p) /\ n > products[p].current_stock) =>
                    /\ last'.result = "raise_insufficient"
                    /\ after = items
             /\ ~isLine => after = items
      ]_vars

(* a line of one unit has been rewritten to two units *)
C31_Witness ==
    /\ last.op = "update_item_quantity"
    /\ last.result = "true"
    /\ last.args[2] = 2
    /\ \E i \in 1..Len(current_sale.items) :
           /\ current_sale.items[i].product_id = last.args[1]
           /\ current_sale.items[i].quantity = 2
           /\ current_sale.items[i].total_price = 2 * current_sale.items[i].unit_price
           /\ last.before[i].quantity = 1

(* C32: builder operations are only effective while a sale is open.  A
   successful complete_sale clears the builder's working slot; with no
   open sale add_item_to_sale and complete_sale raise,
   remove_item_from_sale, update_item_quantity and set_payment_method
   return false, validate_payment returns false, and none of them changes
   stock, movements or persisted sales: a sale that was completed cannot
   be completed a second time. *)
C32_BuilderNeedsOpenSale ==
    [][/\ (last'.op = "complete_sale" /\ last'.result = "id") =>
              ~current_sale'.active
       /\ (~current_sale.active
              /\ last'.op \in {"add_item_to_sale", "complete_sale",
                               "remove_item_from_sale", "update_item_quantity",
                               "set_payment_method"}) =>
              /\ last'.op \in {"add_item_to_sale", "complete_sale"} =>
                     last'.result = "raise_no_sale"
              /\ last'.op \in {"remove_item_from_sale", "update_item_quantity",
                               "set_payment_method"} =>
                     last'.result = "false"
              /\ ~validate_payment(current_sale)
              /\ UNCHANGED <<products, movements, sales, current_sale>>
      ]_vars

(* complete_sale is called again after a sale was completed *)
C32_Witness ==
    /\ Len(sales) = 1
    /\ ~current_sale.active
    /\ last.op = "complete_sale"
    /\ last.result = "raise_no_sale"

(* C33: an open sale that is abandoned leaves no trace.  The staging calls
   on an open sale (add, add by barcode, remove, update quantity, set
   payment) and abandoning it (a new start_new_sale in its place, or the
   cancellation) never change a product's current_stock, never append a
   movement and never persist a sale or sale-item record. *)
C33_AbandonedSaleLeavesNoTrace ==
    [][(current_sale.active
           /\ last'.op \in {"start_new_sale", "cancel_sale", "add_item_to_sale",
                            "add_item_by_barcode", "remove_item_from_sale",
                            "update_item_quantity", "set_payment_method"}) =>
          /\ DOMAIN products' = DOMAIN products
          /\ \A p \in DOMAIN products :
                 products'[p].current_stock = products[p].current_stock
          /\ movements' = movements
          /\ sales' = sales
      ]_vars

(* a sale with a line has been cancelled: the unit is still on the shelf
   and nothing is persisted *)
C33_Witness ==
    /\ last.op = "cancel_sale"
    /\ last.before # <<>>
    /\ ~current_sale.active
    /\ sales = <<>>
    /\ products[last.before[1].product_id].current_stock
           = last.before[1].quantity

(* C34: in every reachable state every daily cash record satisfies
   expected_closing = opening_amount + cash_sales - withdrawals, on the
   record's own stored cash_sales and withdrawals, after any sequence of
   start_day, update_sales_totals, record_withdrawal, reconcile_till and
   get_cash_summary calls. *)
C34_ExpectedClosingOfStoredFields ==
    \A i \in 1..Len(daily_cash) :
        daily_cash[i].expected_closing
            = daily_cash[i].opening_amount + daily_cash[i].cash_sales
                  - daily_cash[i].withdrawals

(* a reconciled day with an opening float, cash taken and cash withdrawn *)
C34_Witness ==
    \E i \in 1..Len(daily_cash) :
        /\ daily_cash[i].opening_amount > 0
        /\ daily_cash[i].cash_sales > 0
        /\ daily_cash[i].withdrawals > 0
        /\ daily_cash[i].reconciled

(* C35: totals never drift from line items.  After any sequence of add
   (merges included), update-quantity and remove operations every line of
   the open sale has total_price = unit_price * quantity, total_amount is
   the sum of the line totals and item_count the sum of the line
   quantities; the unit_price of a line is the product's sell price at the
   time the line was first added: a step that adds the line takes the
   price of that moment, and no later step, a price change by
   update_product or a merge included, alters it. *)
C35_TotalsNeverDrift ==
    [][(current_sale'.active /\ last'.op # "other") =>
          LET before == IF last'.op = "start_new_sale" THEN <<>>
                        ELSE current_sale.items
              after == current_sale'.items
          IN /\ \A j \in 1..Len(after) :
                    /\ after[j].total_price = after[j].unit_price * after[j].quantity
                    /\ IF \E i \in 1..Len(before) :
                              before[i].product_id = after[j].product_id
                       THEN \E i \in 1..Len(before) :
                                /\ before[i].product_id = after[j].product_id
                                /\ before[i].unit_price = after[j].unit_price
                       ELSE after[j].unit_price
                                = products[after[j].product_id].sell_price
             /\ total_amount(current_sale')
                    = SumOver([j \in 1..Len(after) |-> after[j].total_price],
                              1..Len(after))
             /\ item_count(current_sale')
                    = SumOver([j \in 1..Len(after) |-> after[j].quantity],
                              1..Len(after))
      ]_vars

(* a second unit has been merged into a line after the product was
   repriced: the line of two units keeps the price it was added at *)
C35_Witness ==
    /\ last.op = "add_item_to_sale"
    /\ last.result = "true"
    /\ \E i \in 1..Len(current_sale.items) :
           /\ current_sale.items[i].quantity = 2
           /\ current_sale.items[i].product_id \in DOMAIN products
           /\ current_sale.items[i].unit_price
                  # products[current_sale.items[i].product_id].sell_price
           /\ current_sale.items[i].total_price
                  = 2 * current_sale.items[i].unit_price
           /\ Len(last.before) = Len(current_sale.items)
           /\ last.before[i].quantity = 1

(* C36: the movement log of each product is a continuous chain that
   matches the real stock.  For every movement appended by any operation
   (adjust_stock, reduce_stock_for_sale, void_sale, archive_product,
   restore_product, forced delete_product) previous_stock is the product's
   current_stock immediately before the operation and new_stock its
   current_stock immediately after it, also when an archived product's
   stock was adjusted before it is restored.  A product that is entered by
   the operation had a stock of 0 before it; the stock of a product that
   is deleted by it is not looked at. *)
C36_MovementChainMatchesStock ==
    [][\A k \in (Len(movements) + 1)..Len(movements') :
          LET m == movements'[k]
              p == m.product_id
          IN /\ m.previous_stock
                    = IF p \in DOMAIN products THEN products[p].current_stock
                      ELSE 0
             /\ p \in DOMAIN products' =>
                    m.new_stock = products'[p].current_stock
      ]_vars

(* C37: the change stored with every persisted sale is consistent with the
   sale as completed: change_given is the change formula of the stored
   payment method on the stored cash_amount, card_amount and the sale's
   final total_amount (cash: what the cash exceeds the total by; mixed:
   what the cash exceeds the part the card leaves open by; card: 0), for
   any order of set_payment_method and item operations before
   complete_sale. *)
C37_StoredChangeMatchesSale ==
    \A sid \in 1..Len(sales) :
        LET row == sales[sid]
            due == IF row.total_amount > row.card_amount
                   THEN row.total_amount - row.card_amount ELSE 0
        IN row.change_given
               = IF row.payment_method = "cash"
                 THEN (IF row.cash_amount > row.total_amount
                       THEN row.cash_amount - row.total_amount ELSE 0)
                 ELSE IF row.payment_method = "mixed"
                 THEN (IF row.cash_amount > due THEN row.cash_amount - due ELSE 0)
                 ELSE 0

(* C38: a reconciled daily cash record stays internally consistent: in
   every state after reconcile_till succeeded for a date, the record of
   the date has variance = actual_closing - expected_closing, whatever
   sales are completed or voided and whatever get_cash_summary,
   update_sales_totals or record_withdrawal calls happen afterwards. *)
C38_ReconciledRecordStaysConsistent ==
    \A i \in 1..Len(daily_cash) :
        daily_cash[i].reconciled =>
            /\ daily_cash[i].actual_closing # <<>>
            /\ daily_cash[i].variance
                   = <<daily_cash[i].actual_closing[1]
                           - daily_cash[i].expected_closing>>

(* C39: money taken is accounted exactly once: immediately after
   update_sales_totals(date) on a started date, cash_sales + card_sales of
   the date's record is the sum of total_amount over the sales of that date
   that are not voided, for every mix of cash, card and mixed sales, those
   where more was tendered than the total included. *)
C39_MoneyAccountedOnce ==
    (last.op = "update_sales_totals" /\ last.result = "true") =>
        LET date == last.args[1]
            taken == {sid \in 1..Len(sales) :
                         sales[sid].date = date /\ ~sales[sid].voided}
        IN \A i \in 1..Len(daily_cash) :
               daily_cash[i].date = date =>
                   daily_cash[i].cash_sales + daily_cash[i].card_sales
                       = SumOver([sid \in 1..Len(sales) |->
                                     sales[sid].total_amount], taken)

(* C40: a reconciliation reads back as it was written: after
   reconcile_till(actual) succeeds, get_daily_cash and get_cash_summary
   return actual_closing = actual and variance = actual - expected as
   numbers, also when actual or the variance is exactly 0, and
   generate_daily_report for that date returns a report, with status
   BALANCED when |variance| < 0.01, instead of failing. *)
C40_ReconciliationReadsBack ==
    (last.op = "reconcile_till" /\ last.result = "true") =>
        LET written == last.args[1]
            read == get_daily_cash(daily_cash, today)
            summary == get_cash_summary(daily_cash, sales, today)
            report == generate_daily_report(daily_cash, today)
        IN /\ read # <<>>
           /\ read[1].actual_closing = <<written.actual>>
           /\ read[1].variance = <<written.actual - written.expected>>
           /\ summary.day_started
           /\ summary.actual_closing = <<written.actual>>
           /\ summary.variance = <<written.actual - written.expected>>
           /\ report.result = "report"
           /\ 100 * Max(written.variance, 0 - written.variance) < 1 =>
                  report.status = "BALANCED"

====
